---- MODULE Spec2Model ----
(***************************************************************************)
(* A model of the baseline JPEG decoder: the bit source (BitReader), the   *)
(* Huffman codebook (HuffmanTree), the segment parser (Parser) and the     *)
(* Decode pipeline that consumes the parser's RawImage.                    *)
(*                                                                         *)
(* Two specifications are defined over one set of variables:               *)
(*   Spec      the segment parser and Decode, fed by a byte stream that    *)
(*             the environment supplies read by read;                      *)
(*   SpecBits  the BitReader alone, over a short concrete byte stream.     *)
(***************************************************************************)
EXTENDS Integers, Sequences, FiniteSets, TLC

VARIABLES
    pc,             \* where the program is: see the two specifications
    err,            \* what() of the exception that ended the run, "" if none
    in_,            \* BitReader::in_   : the bytes of the stream (SpecBits)
    pos,            \* BitReader::in_   : how many bytes have been extracted
    buffer_,        \* BitReader::buffer_
    buffer_size_,   \* BitReader::buffer_size_
    last,           \* SpecBits: the last BitReader call and what it gave
    variant,        \* "baseline" or "faster": which parsers.cpp/decoder.cpp
    eof,            \* Spec: a read of the stream has failed (end of stream)
    seen,           \* Spec: history of the markers ReadMarkerType returned
    comment,        \* ReadRawImage: std::string comment
    metadata,       \* ReadRawImage: std::optional<ImageMetadata>
    quantum_tables, \* ReadRawImage: quantum tables by id
    huffman_trees,  \* ReadRawImage: Huffman trees by (id, is_dc)
    image_data,     \* ReadRawImage: std::optional<ImageData>
    scan,           \* Spec: the last SOS header that ReadImageData accepted
    get_ans         \* GetAns: h_max, v_max and whether meta.channels was overrun

bitVars == <<in_, pos, buffer_, buffer_size_, last>>
parserVars == <<variant, eof, seen, comment, metadata, quantum_tables,
                huffman_trees, image_data, scan, get_ans>>
vars == <<pc, err, bitVars, parserVars>>

(***************************************************************************)
(* Bounds of the model.                                                    *)
(***************************************************************************)
\* SpecBits: the longest byte stream the BitReader is run on
MaxBytes == 3
\* Spec: the most segments read between SOI and EOI
MaxSegments == 4

(***************************************************************************)
(* Fixed-width integers and bytes.                                         *)
(***************************************************************************)
Pow2(n) == 2 ^ n

\* static_cast<int16_t>(x)
ToInt16(x) == LET m == x % 65536 IN IF m >= 32768 THEN m - 65536 ELSE m

\* static_cast<uint8_t>(x), static_cast<uint16_t>(x)
ToUint8(x) == x % 256
ToUint16(x) == x % 65536

\* x >> 4 and x & kLowestByteMask on a byte
kLowestByteMask == 15
HiNibble(x) == x \div 16
LoNibble(x) == x % (kLowestByteMask + 1)

NoValue == "nullopt"
\* an empty std::optional of a struct
NullOpt == [has_value |-> FALSE]

(***************************************************************************)
(* BitReader.  A reader is the record of its fields; in is the stream and  *)
(* pos the number of bytes extracted from it, so that a read fails exactly *)
(* when pos = Len(in).                                                     *)
(***************************************************************************)
kCharSz == 8

Reader(bytes) == [in |-> bytes, pos |-> 0, buffer_ |-> 0, buffer_size_ |-> 0]

AtEnd(r) == r.pos >= Len(r.in)

\* The refill of ReadBits (buffer_size_ == 0): one byte into buffer_, and when
\* it is 0xff one more byte, which has to be 0x00.
RefillLax(r) ==
    IF AtEnd(r)
    THEN [rd |-> r, err |-> "EOF"]
    ELSE LET tmp == r.in[r.pos + 1]
             r1 == [r EXCEPT !.buffer_ = tmp, !.buffer_size_ = kCharSz,
                             !.pos = r.pos + 1]
         IN  IF tmp = 255 /\ ~AtEnd(r1)
             THEN [rd |-> [r1 EXCEPT !.pos = r1.pos + 1], err |-> ""]
             ELSE [rd |-> r1, err |-> ""]

Refill(r) ==
    IF AtEnd(r)
    THEN [rd |-> r, err |-> "EOF"]
    ELSE LET tmp == r.in[r.pos + 1]
             r1 == [r EXCEPT !.buffer_ = tmp, !.buffer_size_ = kCharSz,
                             !.pos = r.pos + 1]
         IN  IF tmp = 255
             THEN IF AtEnd(r1) \/ r1.in[r1.pos + 1] # 0
                  THEN [rd |-> r1, err |-> "Encountered marker instead of 0xFF"]
                  ELSE [rd |-> [r1 EXCEPT !.pos = r1.pos + 1], err |-> ""]
             ELSE [rd |-> r1, err |-> ""]

\* The while loop of ReadBits.  refills collects the stream offsets of the
\* bytes the refills loaded into buffer_.
RECURSIVE ReadBitsLoop(_, _, _, _)
ReadBitsLoop(r, bits_cnt, result, refills) ==
    IF bits_cnt = 0
    THEN [rd |-> r, val |-> result, err |-> "", refills |-> refills]
    ELSE LET f == IF r.buffer_size_ = 0 THEN Refill(r) ELSE [rd |-> r, err |-> ""]
             rs == IF r.buffer_size_ = 0 /\ ~AtEnd(r)
                   THEN Append(refills, r.pos + 1) ELSE refills
         IN  IF f.err # ""
             THEN [rd |-> f.rd, val |-> NoValue, err |-> f.err, refills |-> rs]
             ELSE LET b == f.rd
                      bit == (b.buffer_ \div Pow2(kCharSz - 1)) % 2
                      b1 == [b EXCEPT !.buffer_size_ = b.buffer_size_ - 1,
                                      !.buffer_ = ToUint8(b.buffer_ * 2)]
                  IN  ReadBitsLoop(b1, bits_cnt - 1,
                                   ToUint16(result * 2) + bit, rs)

\* ReadBits whose result starts at 1
ReadBitsFromOne(r, bits_cnt) ==
    IF bits_cnt > kCharSz * 2
    THEN [rd |-> r, val |-> NoValue, err |-> "Trying to read many bytes",
          refills |-> <<>>]
    ELSE ReadBitsLoop(r, bits_cnt, 1, <<>>)

ReadBits(r, bits_cnt) ==
    IF bits_cnt > kCharSz * 2
    THEN [rd |-> r, val |-> NoValue, err |-> "Trying to read many bytes",
          refills |-> <<>>]
    ELSE ReadBitsLoop(r, bits_cnt, 0, <<>>)

ReadBitsSigned(r, bits_cnt) ==
    IF bits_cnt = 0
    THEN [rd |-> r, val |-> 0, err |-> "", refills |-> <<>>]
    ELSE LET g == ReadBits(r, bits_cnt)
         IN  IF g.err # "" THEN g
             ELSE IF (g.val \div Pow2(bits_cnt - 1)) % 2 = 1
                  THEN [g EXCEPT !.val = ToInt16(g.val)]
                  ELSE [g EXCEPT !.val = ToInt16(g.val - (Pow2(bits_cnt) - 1))]

\* Align that keeps the buffer
AlignKeeps(r) == r

\* Align(): buffer_size_ = 0; buffer_ = 0
Align(r) == [r EXCEPT !.buffer_size_ = 0, !.buffer_ = 0]

(***************************************************************************)
(* HuffmanTree.  A node is named by the path of bits from the root (the    *)
(* root is <<>>); nodes maps the paths of the nodes that exist to          *)
(* [is_terminal, value]; state_ is a path, or NullPtr.                     *)
(***************************************************************************)
NullPtr == "nullptr"

InnerNode == [is_terminal |-> FALSE, value |-> NoValue]
Leaf(value) == [is_terminal |-> TRUE, value |-> value]

\* Reset(): root_ = state_ = std::make_shared<Node>()
Reset == [nodes |-> (<<>> :> InnerNode), state_ |-> <<>>]

Left(now) == Append(now, 0)
Right(now) == Append(now, 1)
Has(nodes, path) == path \in DOMAIN nodes

\* AddNodeImpl(code_length, value, now): gives [ok, nodes]; inner nodes made on
\* the way stay in the tree when the call fails.
RECURSIVE AddNodeImpl(_, _, _, _)
AddNodeImpl(code_length, value, now, nodes) ==
    IF nodes[now].is_terminal
    THEN [ok |-> FALSE, nodes |-> nodes]
    ELSE IF code_length = 1
    THEN IF ~Has(nodes, Left(now))
         THEN [ok |-> TRUE, nodes |-> nodes @@ (Left(now) :> Leaf(value))]
         ELSE IF ~Has(nodes, Right(now))
         THEN [ok |-> TRUE, nodes |-> nodes @@ (Right(now) :> Leaf(value))]
         ELSE [ok |-> FALSE, nodes |-> nodes]
    ELSE LET n1 == IF Has(nodes, Left(now)) THEN nodes
                   ELSE nodes @@ (Left(now) :> InnerNode)
             a == AddNodeImpl(code_length - 1, value, Left(now), n1)
         IN  IF a.ok THEN a
             ELSE LET n2 == IF Has(a.nodes, Right(now)) THEN a.nodes
                            ELSE a.nodes @@ (Right(now) :> InnerNode)
                  IN  AddNodeImpl(code_length - 1, value, Right(now), n2)

RECURSIVE SumSeq(_)
SumSeq(q) == IF q = <<>> THEN 0 ELSE Head(q) + SumSeq(Tail(q))

\* The while loop of Build: skip the lengths whose quota is used up.  The left
\* operand of && is evaluated first, so with now_length = size + 1 the element
\* one past the end of code_lengths_new is read (oob) before the bound is
\* looked at; whatever it holds, the bound then ends the loop.
RECURSIVE SkipEmpty(_, _, _)
SkipEmpty(code_lengths_new, now_length, oob) ==
    IF now_length - 1 >= Len(code_lengths_new)
    THEN [now_length |-> now_length, oob |-> TRUE]
    ELSE IF code_lengths_new[now_length] = 0 /\ now_length <= Len(code_lengths_new)
    THEN SkipEmpty(code_lengths_new, now_length + 1, oob)
    ELSE [now_length |-> now_length, oob |-> oob]

\* The for loop of Build over values[i..]
RECURSIVE BuildLoop(_, _, _, _, _, _)
BuildLoop(code_lengths_new, values, i, now_length, nodes, oob) ==
    IF i > Len(values)
    THEN IF SumSeq(code_lengths_new) % 256 > 0
         THEN [nodes |-> nodes, err |-> "Too big code length sum", oob |-> oob]
         ELSE [nodes |-> nodes, err |-> "", oob |-> oob]
    ELSE LET s == SkipEmpty(code_lengths_new, now_length, oob)
         IN  IF s.now_length > Len(code_lengths_new)
             THEN [nodes |-> nodes, err |-> "Too small code lengths sum", oob |-> s.oob]
             ELSE IF s.now_length > 16
             THEN [nodes |-> nodes, err |-> "Too big code length", oob |-> s.oob]
             ELSE LET cl == [code_lengths_new EXCEPT ![s.now_length] = @ - 1]
                      a == AddNodeImpl(s.now_length, values[i], <<>>, nodes)
                  IN  IF ~a.ok
                      THEN [nodes |-> a.nodes, oob |-> s.oob,
                            err |-> "Something went wrong in node adding"]
                      ELSE BuildLoop(cl, values, i + 1, s.now_length, a.nodes, s.oob)

\* HuffmanTree::Build(code_lengths, values): gives [tree, err, oob]
Build(code_lengths, values) ==
    LET b == BuildLoop(code_lengths, values, 1, 1, Reset.nodes, FALSE)
    IN  [tree |-> [nodes |-> b.nodes, state_ |-> <<>>], err |-> b.err, oob |-> b.oob]

\* Move that stays at the leaf it reached
MoveNoRestart(tree, bit) ==
    IF tree.state_ = NullPtr
    THEN [tree |-> tree, done |-> FALSE, value |-> NoValue, err |-> "State is nullptr"]
    ELSE LET child == IF bit = 0 THEN Left(tree.state_) ELSE Right(tree.state_)
             need == IF Has(tree.nodes, child) THEN child ELSE NullPtr
         IN  IF need = NullPtr \/ ~tree.nodes[child].is_terminal
             THEN [tree |-> [tree EXCEPT !.state_ = need], done |-> FALSE,
                   value |-> NoValue, err |-> ""]
             ELSE [tree |-> [tree EXCEPT !.state_ = child], done |-> TRUE,
                   value |-> tree.nodes[child].value, err |-> ""]

\* HuffmanTree::Impl::Move(bit, value): gives [tree, done, value, err]
Move(tree, bit) ==
    IF tree.state_ = NullPtr
    THEN [tree |-> tree, done |-> FALSE, value |-> NoValue, err |-> "State is nullptr"]
    ELSE LET child == IF bit = 0 THEN Left(tree.state_) ELSE Right(tree.state_)
             need == IF Has(tree.nodes, child) THEN child ELSE NullPtr
         IN  IF need = NullPtr \/ ~tree.nodes[child].is_terminal
             THEN [tree |-> [tree EXCEPT !.state_ = need], done |-> FALSE,
                   value |-> NoValue, err |-> ""]
             ELSE [tree |-> [tree EXCEPT !.state_ = <<>>], done |-> TRUE,
                   value |-> tree.nodes[child].value, err |-> ""]

(***************************************************************************)
(* GetZigZag, the two implementations.  Blocks are sequences of kBlockSz   *)
(* values; raster position (row, col) is index row * 8 + col + 1.          *)
(***************************************************************************)
kBlockSz == 64
Dim == 8

Min(a, b) == IF a < b THEN a ELSE b
Max(a, b) == IF a > b THEN a ELSE b

\* baseline: the cells of one diagonal in the order the while loop visits them
RECURSIVE DiagCells(_, _, _)
DiagCells(diag, row, col) ==
    IF diag % 2 = 0
    THEN IF row >= 0 /\ col <= Dim - 1
         THEN <<(<<row, col>>)>> \o DiagCells(diag, row - 1, col + 1)
         ELSE <<>>
    ELSE IF col >= 0 /\ row <= Dim - 1
         THEN <<(<<row, col>>)>> \o DiagCells(diag, row + 1, col - 1)
         ELSE <<>>

RECURSIVE DiagWalk(_)
DiagWalk(diag) ==
    IF diag >= 2 * Dim - 1 THEN <<>>
    ELSE (IF diag % 2 = 0
          THEN DiagCells(diag, Min(diag, Dim - 1), diag - Min(diag, Dim - 1))
          ELSE DiagCells(diag, diag - Min(diag, Dim - 1), Min(diag, Dim - 1)))
         \o DiagWalk(diag + 1)

\* the cell that data[index] is written to, index = 0, 1, ...
ZigZagWalk == DiagWalk(0)

\* result[r * 8 + c] = dub[r][c], and dub[row][col] = data[index++] on the walk
ZigZagSource ==
    [p \in 1..kBlockSz |->
        CHOOSE k \in 1..kBlockSz :
            ZigZagWalk[k] = <<(p - 1) \div Dim, (p - 1) % Dim>>]

GetZigZagBaseline(data) == [p \in 1..kBlockSz |-> data[ZigZagSource[p]]]

\* faster: ans[i] = data[kZigZagMap[i]]
kZigZagMap ==
    << 0,  1,  5,  6, 14, 15, 27, 28,  2,  4,  7, 13, 16, 26, 29, 42,
       3,  8, 12, 17, 25, 30, 41, 43,  9, 11, 18, 24, 31, 40, 44, 53,
      10, 19, 23, 32, 39, 45, 52, 54, 20, 22, 33, 38, 46, 51, 55, 60,
      21, 34, 37, 47, 50, 56, 59, 61, 35, 36, 48, 49, 57, 58, 62, 63>>

\* GetZigZagFaster that copies the block as it is
GetZigZagCopy(data) == [i \in 1..kBlockSz |-> data[i]]

GetZigZagFaster(data) == [i \in 1..kBlockSz |-> data[kZigZagMap[i] + 1]]

GetZigZag(v, data) ==
    IF v = "baseline" THEN GetZigZagBaseline(data) ELSE GetZigZagFaster(data)

(***************************************************************************)
(* Parser: the segment readers as functions of the bytes they read.  Each  *)
(* takes the bytes in the order the code reads them and gives a record     *)
(* with err, the what() of the exception it throws ("" when it returns).   *)
(***************************************************************************)
\* kWordToMarkerType
kWordToMarkerType(word) ==
    CASE word = 65496 -> "BeginFile"
      [] word = 65497 -> "EndFile"
      [] word = 65534 -> "Comment"
      [] word = 65499 -> "Quant"
      [] word = 65472 -> "Meta"
      [] word = 65476 -> "Huffman"
      [] word = 65498 -> "Data"
      [] word >= 65504 /\ word <= 65519 -> "APPn"
      [] OTHER -> NoValue

\* ReadMarkerType(): the marker type of the word, or the throw
ReadMarkerType(word) ==
    IF kWordToMarkerType(word) # NoValue
    THEN [err |-> "", marker |-> kWordToMarkerType(word)]
    ELSE [err |-> "Unknown marker", marker |-> NoValue]

\* ReadSz(): the payload length of a segment
ReadSz(word) ==
    IF word < 2
    THEN [err |-> "Too little comment section size", sz |-> 0]
    ELSE [err |-> "", sz |-> ToUint16(word - 2)]

\* ImageMetadata::GetMetaByChannelId: the index in channels, 0 for the throw
GetMetaByChannelId(meta, channel_id) ==
    IF \E i \in 1..Len(meta.channels) : meta.channels[i].channel_id = channel_id
    THEN CHOOSE i \in 1..Len(meta.channels) :
            /\ meta.channels[i].channel_id = channel_id
            /\ \A j \in 1..(i - 1) : meta.channels[j].channel_id # channel_id
    ELSE 0

\* ReadImageMeta, up to the checks that come before the channel loop
ReadImageMetaHead(sz, height, width, channels_cnt) ==
    IF sz < 6 THEN "Too little image metadata size"
    ELSE IF height = 0 \/ width = 0 THEN "Empty image"
    ELSE IF sz - 6 # channels_cnt * 3 THEN "Bad metadata size"
    ELSE ""

\* the channel loop of ReadImageMeta: triple = <<id, hv, quant_id>>
ChannelInfo(triple) ==
    [channel_id |-> triple[1], h |-> HiNibble(triple[2]),
     v |-> LoNibble(triple[2]), quant_id |-> triple[3]]

ReadImageMeta(precision, height, width, channels_cnt, triples) ==
    [precision |-> precision, channels_cnt |-> channels_cnt, height |-> height,
     width |-> width,
     channels |-> [c \in 1..channels_cnt |-> ChannelInfo(triples[c])]]

\* ReadQuantTable: the while loop over the tables tabs[i..] = [mask, data] of
\* the payload.  short: the payload asks for a table the input does not hold.
RECURSIVE ReadQuantTable(_, _, _, _, _)
ReadQuantTable(v, sz, tabs, i, ans) ==
    IF sz = 0
    THEN [err |-> "", ans |-> ans, used |-> i - 1, short |-> FALSE]
    ELSE IF i > Len(tabs)
    THEN [err |-> "", ans |-> ans, used |-> i - 1, short |-> TRUE]
    ELSE LET mask == tabs[i].mask
             value_len == IF HiNibble(mask) = 1 THEN 2 ELSE 1
             sz1 == sz - 1
         IN  IF HiNibble(mask) # 0 /\ HiNibble(mask) # 1
             THEN [err |-> "Too big len", ans |-> ans, used |-> i, short |-> FALSE]
             ELSE IF sz1 < kBlockSz * value_len
             THEN [err |-> "Bad quantum size", ans |-> ans, used |-> i, short |-> FALSE]
             ELSE ReadQuantTable(v, sz1 - kBlockSz * value_len, tabs, i + 1,
                      Append(ans, [table_id |-> LoNibble(mask),
                                   data |-> GetZigZag(v, tabs[i].data)]))

\* ReadHuffmanTree: the while loop over the tables
\* tabs[i..] = [mask, code_lengths, values] of the payload; values holds the
\* sum_lengths bytes that follow the histogram.
RECURSIVE ReadHuffmanTree(_, _, _, _)
ReadHuffmanTree(sz, tabs, i, ans) ==
    IF sz = 0
    THEN [err |-> "", ans |-> ans, used |-> i - 1, short |-> FALSE]
    ELSE IF sz < 17
    THEN [err |-> "Too small huffman section size", ans |-> ans, used |-> i - 1,
          short |-> FALSE]
    ELSE IF i > Len(tabs)
    THEN [err |-> "", ans |-> ans, used |-> i - 1, short |-> TRUE]
    ELSE LET mask == tabs[i].mask
             is_dc == HiNibble(mask) = 0
             table_id == LoNibble(mask)
             sum_lengths == SumSeq(tabs[i].code_lengths)
             sz1 == sz - 17
         IN  IF sum_lengths > sz1
             THEN [err |-> "Bad Huffman table size", ans |-> ans, used |-> i,
                   short |-> FALSE]
             ELSE LET b == Build(tabs[i].code_lengths, tabs[i].values)
                  IN  IF b.err # ""
                      THEN [err |-> b.err, ans |-> ans, used |-> i, short |-> FALSE]
                      ELSE ReadHuffmanTree(sz1 - sum_lengths, tabs, i + 1,
                               Append(ans, [is_dc |-> is_dc, table_id |-> table_id,
                                            tree |-> b.tree,
                                            class |-> HiNibble(mask)]))

\* GetPairHash(a, b)
GetPairHash(a, b) == a * 2 + (IF b THEN 1 ELSE 0)

\* the key of a tree in huffman_trees: std::make_pair(id, is_dc) in the
\* baseline, GetPairHash(id, is_dc) in the faster variant
TreeKey(v, id, is_dc) == IF v = "baseline" THEN <<id, is_dc>> ELSE GetPairHash(id, is_dc)

\* the insertion loops of ReadRawImage: tables by id, the throw on a duplicate
RECURSIVE InsertQuantReplace(_, _, _)
InsertQuantReplace(tables, list, i) ==
    IF i > Len(list) THEN [err |-> "", tables |-> tables]
    ELSE InsertQuantReplace(
             [id \in DOMAIN tables \cup {list[i].table_id} |->
                 IF id = list[i].table_id THEN list[i].data ELSE tables[id]],
             list, i + 1)

RECURSIVE InsertQuant(_, _, _)
InsertQuant(tables, list, i) ==
    IF i > Len(list) THEN [err |-> "", tables |-> tables]
    ELSE IF list[i].table_id \in DOMAIN tables
    THEN [err |-> "Two or more quantum tables with one id", tables |-> tables]
    ELSE InsertQuant(tables @@ (list[i].table_id :> list[i].data), list, i + 1)

RECURSIVE InsertHuffman(_, _, _, _)
InsertHuffman(v, trees, list, i) ==
    IF i > Len(list) THEN [err |-> "", trees |-> trees]
    ELSE LET key == TreeKey(v, list[i].table_id, list[i].is_dc)
         IN  IF key \in DOMAIN trees
             THEN [err |-> "Two or more huffman trees with one id", trees |-> trees]
             ELSE InsertHuffman(v,
                      trees @@ (key :> [nodes |-> list[i].tree.nodes,
                                        state_ |-> list[i].tree.state_,
                                        class |-> list[i].class]),
                      list, i + 1)

(***************************************************************************)
(* Entropy decode.  trees is huffman_trees (the trees are used through     *)
(* pointers into it, so their state_ is shared), rd the BitReader.         *)
(***************************************************************************)
\* ReadFromHuffmanTree(tree): Move on single bits until a leaf.
\* ReadFromHuffmanTreeMove: after Move gave m on the bit g;
\* ReadFromHuffmanTreeBit: after ReadBits() gave g.
RECURSIVE ReadFromHuffmanTree(_, _, _)
ReadFromHuffmanTreeMove(trees, key, g, m) ==
    IF m.err # ""
    THEN [rd |-> g.rd, trees |-> [trees EXCEPT ![key] = m.tree], val |-> NoValue,
          err |-> m.err]
    ELSE IF m.done
    THEN [rd |-> g.rd, trees |-> [trees EXCEPT ![key] = m.tree],
          val |-> ToUint8(m.value), err |-> ""]
    ELSE ReadFromHuffmanTree([trees EXCEPT ![key] = m.tree], key, g.rd)

ReadFromHuffmanTreeBit(trees, key, g) ==
    IF g.err # ""
    THEN [rd |-> g.rd, trees |-> trees, val |-> NoValue, err |-> g.err]
    ELSE ReadFromHuffmanTreeMove(trees, key, g, Move(trees[key], g.val))

ReadFromHuffmanTree(trees, key, rd) ==
    ReadFromHuffmanTreeBit(trees, key, ReadBits(rd, 1))

Zeros(n) == [i \in 1..n |-> 0]

\* the AC loop of ReadBlock: while (matrix.size() < kBlockSz).
\* ReadBlockACCoef: after ReadBitsSigned(ac_sz) gave s;
\* ReadBlockACMask: after ReadFromHuffmanTree(ac_tree) gave a.
\* steps lists the passes of the loop that decoded a symbol: the symbol, the
\* size of matrix before and after the pass, and where the BitReader was when
\* the symbol had been decoded and at the end of the pass.
ReaderAt(r) == <<r.pos, r.buffer_size_>>

RECURSIVE ReadBlockAC(_, _, _, _)
ReadBlockACCoef(trees, ac_key, matrix, s) ==
    IF s.err # ""
    THEN [rd |-> s.rd, trees |-> trees, matrix |-> matrix, err |-> s.err,
          steps |-> <<>>]
    ELSE ReadBlockAC(trees, ac_key, s.rd, Append(matrix, s.val))

\* ReadBlockACMask that reads a coefficient of size 0 after every run
ReadBlockACMaskAnyRun(ac_key, matrix, a) ==
    IF a.err # ""
    THEN [rd |-> a.rd, trees |-> a.trees, matrix |-> matrix, err |-> a.err,
          steps |-> <<>>]
    ELSE IF a.val = 0
    THEN [rd |-> a.rd, trees |-> a.trees, err |-> "",
          matrix |-> matrix \o Zeros(kBlockSz - Len(matrix)),
          steps |-> <<[mask |-> 0, at |-> Len(matrix), len |-> kBlockSz,
                       from |-> ReaderAt(a.rd), to |-> ReaderAt(a.rd)]>>]
    ELSE LET zeros_cnt == HiNibble(a.val)
             s == ReadBitsSigned(a.rd, LoNibble(a.val))
             r == ReadBlockACCoef(a.trees, ac_key, matrix \o Zeros(zeros_cnt), s)
         IN  [r EXCEPT !.steps =
                 <<[mask |-> a.val, at |-> Len(matrix),
                    len |-> Len(matrix) + zeros_cnt + (IF s.err = "" THEN 1 ELSE 0),
                    from |-> ReaderAt(a.rd), to |-> ReaderAt(s.rd)]>> \o @]

ReadBlockACMask(ac_key, matrix, a) ==
    IF a.err # ""
    THEN [rd |-> a.rd, trees |-> a.trees, matrix |-> matrix, err |-> a.err,
          steps |-> <<>>]
    ELSE IF a.val = 0
    THEN [rd |-> a.rd, trees |-> a.trees, err |-> "",
          matrix |-> matrix \o Zeros(kBlockSz - Len(matrix)),
          steps |-> <<[mask |-> 0, at |-> Len(matrix), len |-> kBlockSz,
                       from |-> ReaderAt(a.rd), to |-> ReaderAt(a.rd)]>>]
    ELSE LET zeros_cnt == HiNibble(a.val)
             ac_sz == LoNibble(a.val)
         IN  IF ac_sz # 0 \/ zeros_cnt = 15
             THEN LET s == ReadBitsSigned(a.rd, ac_sz)
                      r == ReadBlockACCoef(a.trees, ac_key, matrix \o Zeros(zeros_cnt), s)
                  IN  [r EXCEPT !.steps =
                          <<[mask |-> a.val, at |-> Len(matrix),
                             len |-> Len(matrix) + zeros_cnt
                                     + (IF s.err = "" THEN 1 ELSE 0),
                             from |-> ReaderAt(a.rd), to |-> ReaderAt(s.rd)]>> \o @]
             ELSE [rd |-> a.rd, trees |-> a.trees, matrix |-> matrix \o Zeros(zeros_cnt),
                   err |-> "Empty ac coef",
                   steps |-> <<[mask |-> a.val, at |-> Len(matrix),
                                len |-> Len(matrix) + zeros_cnt,
                                from |-> ReaderAt(a.rd), to |-> ReaderAt(a.rd)]>>]

ReadBlockAC(trees, ac_key, rd, matrix) ==
    IF Len(matrix) >= kBlockSz
    THEN [rd |-> rd, trees |-> trees, matrix |-> matrix, err |-> "", steps |-> <<>>]
    ELSE ReadBlockACMask(ac_key, matrix, ReadFromHuffmanTree(trees, ac_key, rd))

\* ReadBlock(dc_tree, ac_tree, prev_dc): gives [rd, trees, prev_dc, block, err].
\* ReadBlockEnd: after the AC loop gave a, prev_dc already updated;
\* ReadBlockDiff: after the DC difference s was read (0 for dc_sz = 0);
\* ReadBlockDC: after ReadFromHuffmanTree(dc_tree) gave d.
\* ReadBlockEnd without the check of the size
ReadBlockEndAnySize(v, prev_dc, a) ==
    IF a.err # ""
    THEN [rd |-> a.rd, trees |-> a.trees, prev_dc |-> prev_dc, block |-> <<>>,
          err |-> a.err]
    ELSE [rd |-> a.rd, trees |-> a.trees, prev_dc |-> prev_dc,
          block |-> a.matrix, err |-> ""]

ReadBlockEnd(v, prev_dc, a) ==
    IF a.err # ""
    THEN [rd |-> a.rd, trees |-> a.trees, prev_dc |-> prev_dc, block |-> <<>>,
          err |-> a.err]
    ELSE IF Len(a.matrix) # kBlockSz
    THEN [rd |-> a.rd, trees |-> a.trees, prev_dc |-> prev_dc, block |-> <<>>,
          err |-> "Too many blocks in matrix"]
    ELSE [rd |-> a.rd, trees |-> a.trees, prev_dc |-> prev_dc,
          block |-> GetZigZag(v, a.matrix), err |-> ""]

\* ReadBlockDiff that takes prev_dc by value
ReadBlockDiffByValue(v, trees, ac_key, prev_dc, s) ==
    IF s.err # ""
    THEN [rd |-> s.rd, trees |-> trees, prev_dc |-> prev_dc, block |-> <<>>,
          err |-> s.err]
    ELSE ReadBlockEnd(v, prev_dc,
                      ReadBlockAC(trees, ac_key, s.rd, <<ToInt16(prev_dc + s.val)>>))

ReadBlockDiff(v, trees, ac_key, prev_dc, s) ==
    IF s.err # ""
    THEN [rd |-> s.rd, trees |-> trees, prev_dc |-> prev_dc, block |-> <<>>,
          err |-> s.err]
    ELSE ReadBlockEnd(v, ToInt16(prev_dc + s.val),
                      ReadBlockAC(trees, ac_key, s.rd, <<ToInt16(prev_dc + s.val)>>))

ReadBlockDC(v, ac_key, prev_dc, d) ==
    IF d.err # ""
    THEN [rd |-> d.rd, trees |-> d.trees, prev_dc |-> prev_dc, block |-> <<>>,
          err |-> d.err]
    ELSE ReadBlockDiff(v, d.trees, ac_key, prev_dc,
                       IF d.val = 0 THEN [rd |-> d.rd, val |-> 0, err |-> ""]
                       ELSE ReadBitsSigned(d.rd, d.val))

ReadBlock(v, trees, dc_key, ac_key, rd, prev_dc) ==
    ReadBlockDC(v, ac_key, prev_dc, ReadFromHuffmanTree(trees, dc_key, rd))

(***************************************************************************)
(* ReadImageData.                                                          *)
(***************************************************************************)
\* the channel loop of the scan header: pairs[c] = <<id, mask>> are the two
\* bytes of channel c.  Gives err and channel_ids with the keys of the trees of
\* each channel.
RECURSIVE ScanChannels(_, _, _, _, _)
ScanChannels(v, trees, pairs, c, acc) ==
    IF c > Len(pairs) THEN [err |-> "", chans |-> acc]
    ELSE LET mask == pairs[c][2]
             dc_key == TreeKey(v, HiNibble(mask), TRUE)
             ac_key == TreeKey(v, LoNibble(mask), FALSE)
         IN  IF dc_key \notin DOMAIN trees \/ ac_key \notin DOMAIN trees
             THEN [err |-> "No huffman table found", chans |-> acc]
             ELSE ScanChannels(v, trees, pairs, c + 1,
                      Append(acc, [channel_id |-> pairs[c][1], dc |-> dc_key,
                                   ac |-> ac_key, dc_id |-> HiNibble(mask),
                                   ac_id |-> LoNibble(mask)]))

\* h_max, v_max: the maxima over meta.channels
RECURSIVE MaxOver(_, _, _)
MaxOver(channels, n, f) ==
    IF n = 0 THEN 0
    ELSE Max(MaxOver(channels, n - 1, f),
             IF f = "h" THEN channels[n].h ELSE channels[n].v)

\* (size + 8 * max - 1) / (8 * max) as uint16_t
McuCount(size, max) == ToUint16((size + 8 * max - 1) \div (8 * max))

\* the blocks of one MCU in decoding order: the scan channel c of each block,
\* or 0 where GetMetaByChannelId throws (the baseline looks the channel up
\* inside the MCU loop)
RECURSIVE McuSchedule(_, _, _)
McuSchedule(meta, chans, c) ==
    IF c > Len(chans) THEN <<>>
    ELSE LET i == GetMetaByChannelId(meta, chans[c].channel_id)
         IN  IF i = 0 THEN <<0>>
             ELSE [k \in 1..(meta.channels[i].h * meta.channels[i].v) |-> c]
                  \o McuSchedule(meta, chans, c + 1)

\* the MCU loops: block j = 0, 1, ... of total.
\* DecodeBlocksNext: after ReadBlock gave b for a block of scan channel c.
RECURSIVE DecodeBlocks(_, _, _, _, _, _, _, _)
DecodeBlocksNext(v, chans, sched, total, j, c, st, b) ==
    IF b.err # ""
    THEN [rd |-> b.rd, trees |-> b.trees, prev_dc |-> st.prev_dc,
          channel_matrix |-> st.channel_matrix, err |-> b.err]
    ELSE DecodeBlocks(v, chans, sched, total, j + 1, b.rd, b.trees,
             [prev_dc |-> [st.prev_dc EXCEPT ![c] = b.prev_dc],
              channel_matrix |-> [st.channel_matrix EXCEPT ![c] = Append(@, b.block)]])

DecodeBlocks(v, chans, sched, total, j, rd, trees, st) ==
    IF j >= total
    THEN [rd |-> rd, trees |-> trees, prev_dc |-> st.prev_dc,
          channel_matrix |-> st.channel_matrix, err |-> ""]
    ELSE LET c == sched[(j % Len(sched)) + 1]
         IN  IF c = 0
             THEN [rd |-> rd, trees |-> trees, prev_dc |-> st.prev_dc,
                   channel_matrix |-> st.channel_matrix, err |-> "No meta for channel"]
             ELSE DecodeBlocksNext(v, chans, sched, total, j, c, st,
                      ReadBlock(v, trees, chans[c].dc, chans[c].ac, rd, st.prev_dc[c]))

\* ReadImageData after the header: the MCU grid and the entropy decode of the
\* bytes ecs.  div0 is what the build makes of the division by 8 * v_max = 0
\* or 8 * h_max = 0 in the baseline: "crash", or "zero" for a quotient of 0.
ZeroSampling(meta) ==
    \/ MaxOver(meta.channels, Len(meta.channels), "h") = 0
    \/ MaxOver(meta.channels, Len(meta.channels), "v") = 0

ReadScanData(v, trees, meta, chans, ecs, div0) ==
    LET h_max == MaxOver(meta.channels, Len(meta.channels), "h")
        v_max == MaxOver(meta.channels, Len(meta.channels), "v")
        zero == ZeroSampling(meta)
        mcu_h == IF v_max = 0 THEN 0 ELSE McuCount(meta.height, v_max)
        mcu_w == IF h_max = 0 THEN 0 ELSE McuCount(meta.width, h_max)
        sched == McuSchedule(meta, chans, 1)
        nometa == \E c \in 1..Len(chans) :
                     GetMetaByChannelId(meta, chans[c].channel_id) = 0
        none == [rd |-> Reader(ecs), trees |-> trees, prev_dc |-> <<>>,
                 channel_matrix |-> <<>>, mcu_h |-> 0, mcu_w |-> 0]
    IN  IF zero /\ v = "faster"
        THEN none @@ [err |-> "sampling factor is zero"]
        ELSE IF zero /\ div0 = "crash"
        THEN none @@ [err |-> "crash"]
        ELSE IF nometa /\ v = "faster"
        THEN none @@ [err |-> "No meta for channel"]
        ELSE LET d == DecodeBlocks(v, chans, sched, mcu_h * mcu_w * Len(sched), 0,
                                   Reader(ecs), trees,
                                   [prev_dc |-> [c \in 1..Len(chans) |-> 0],
                                    channel_matrix |-> [c \in 1..Len(chans) |-> <<>>]])
             IN  d @@ [mcu_h |-> mcu_h, mcu_w |-> mcu_w]

\* the loops of ReadImageData over mcu_y, mcu_x, c, block_v, block_h, from
\* the given values of the loop variables on: one <<mcu_y, mcu_x, c, block_v,
\* block_h>> for every ReadBlock call, in the order of the calls (c counts
\* the scan channels from 1)
RECURSIVE ReadImageDataOrder(_, _, _, _, _, _, _, _, _)
ReadImageDataOrder(meta, channel_ids, mcu_h, mcu_w, mcu_y, mcu_x, c, block_v, block_h) ==
    IF mcu_y >= mcu_h THEN <<>>
    ELSE IF mcu_x >= mcu_w
    THEN ReadImageDataOrder(meta, channel_ids, mcu_h, mcu_w, mcu_y + 1, 0, 1, 0, 0)
    ELSE IF c > Len(channel_ids)
    THEN ReadImageDataOrder(meta, channel_ids, mcu_h, mcu_w, mcu_y, mcu_x + 1, 1, 0, 0)
    ELSE LET i == GetMetaByChannelId(meta, channel_ids[c])
         IN  IF i = 0 THEN <<>>
             ELSE IF block_v >= meta.channels[i].v
             THEN ReadImageDataOrder(meta, channel_ids, mcu_h, mcu_w, mcu_y, mcu_x,
                                     c + 1, 0, 0)
             ELSE IF block_h >= meta.channels[i].h
             THEN ReadImageDataOrder(meta, channel_ids, mcu_h, mcu_w, mcu_y, mcu_x,
                                     c, block_v + 1, 0)
             ELSE <<<<mcu_y, mcu_x, c, block_v, block_h>>>> \o
                  ReadImageDataOrder(meta, channel_ids, mcu_h, mcu_w, mcu_y, mcu_x,
                                     c, block_v, block_h + 1)

(***************************************************************************)
(* Decode after ReadRawImage.                                              *)
(***************************************************************************)
\* Mult(one, two): one[i] *= two[i] on int16_t
Mult(one, two) == [i \in 1..Len(one) |-> ToInt16(one[i] * two[i])]

\* Quantization(raw_image, image_data): gives [err, channel_matrix]
RECURSIVE Quantization(_, _, _, _, _)
Quantization(v, meta, tables, data, i) ==
    IF i > Len(data.channel_ids)
    THEN [err |-> "", channel_matrix |-> data.channel_matrix]
    ELSE LET m == GetMetaByChannelId(meta, data.channel_ids[i])
         IN  IF m = 0
             THEN [err |-> "No meta for channel", channel_matrix |-> data.channel_matrix]
             ELSE IF meta.channels[m].quant_id \notin DOMAIN tables
             THEN [err |-> IF v = "baseline" THEN "std::out_of_range"
                           ELSE "std::bad_optional_access",
                   channel_matrix |-> data.channel_matrix]
             ELSE Quantization(v, meta, tables,
                      [data EXCEPT !.channel_matrix[i] =
                          [j \in 1..Len(@) |->
                              Mult(@[j], tables[meta.channels[m].quant_id])]],
                      i + 1)

\* std::round(x / 8.0) as int16_t: what DctCalculator::Inverse yields in every
\* cell of a block whose only non-zero coefficient is the DC coefficient x
RoundDiv8(x) == IF x >= 0 THEN (x + 4) \div 8 ELSE -((4 - x) \div 8)

\* the samples of a block with a non-zero AC coefficient come out of FFTW in
\* floating point; the model does not compute them and keeps no sample of
\* such a block
Inexact == <<>>

IDCTBlock(block) ==
    IF \A k \in 2..Len(block) : block[k] = 0
    THEN [k \in 1..Len(block) |-> RoundDiv8(block[1])]
    ELSE Inexact

\* IDCT(image_data) on channel_matrix
IDCT(channel_matrix) ==
    [i \in 1..Len(channel_matrix) |->
        [j \in 1..Len(channel_matrix[i]) |-> IDCTBlock(channel_matrix[i][j])]]

\* Rationing(image_data) on channel_matrix
Rationing(channel_matrix) ==
    [i \in 1..Len(channel_matrix) |->
        [j \in 1..Len(channel_matrix[i]) |->
            [k \in 1..Len(channel_matrix[i][j]) |->
                Min(Max(0, ToInt16(channel_matrix[i][j][k] + 128)), 255)]]]

\* The first loop of GetAns: h_max and v_max over meta.channels[c],
\* c < channels_cnt; garbage is what a read past the end of meta.channels
\* yields.  oob: meta.channels was read past its end.  div0: the faster
\* variant divided by a zero h or v in scaling[c].
\* a / b of unsigned operands; 0 stands for the quotient where b = 0 (the
\* callers record the division by zero)
Quot(a, b) == IF b = 0 THEN 0 ELSE a \div b

\* the first loop of GetAns over the scan channels c: h_max and v_max are
\* the maxima of meta.channels[c]; the faster variant also looks the channel
\* up and sets scaling[c] from the maxima found so far
RECURSIVE GetAnsMax(_, _, _, _, _, _)
GetAnsMax(v, meta, channel_ids, c, garbage, acc) ==
    IF c > Len(channel_ids) THEN acc
    ELSE LET past == c > Len(meta.channels)
             ch == IF past THEN garbage ELSE meta.channels[c]
             m == GetMetaByChannelId(meta, channel_ids[c])
             acc1 == [acc EXCEPT !.h_max = Max(@, ch.h), !.v_max = Max(@, ch.v),
                                 !.oob = @ \/ past]
         IN  IF v = "faster" /\ m = 0
             THEN [acc1 EXCEPT !.err = "No meta for channel"]
             ELSE GetAnsMax(v, meta, channel_ids, c + 1, garbage,
                      [acc1 EXCEPT
                          !.div0 = @ \/ (v = "faster" /\
                              (meta.channels[m].v = 0 \/ meta.channels[m].h = 0)),
                          !.scaling = IF v = "faster"
                                      THEN Append(@,
                                               <<Quot(acc1.v_max, meta.channels[m].v),
                                                 Quot(acc1.h_max, meta.channels[m].h)>>)
                                      ELSE @])

\* the baseline replicates the samples of scan channel c over
\* (v_max / v) x (h_max / h) pixels, with the maxima of the first loop
GetAnsScaling(meta, channel_ids, g) ==
    [c \in 1..Len(channel_ids) |->
        LET m == GetMetaByChannelId(meta, channel_ids[c])
        IN  IF m = 0 THEN <<0, 0>>
            ELSE <<Quot(g.v_max, meta.channels[m].v),
                   Quot(g.h_max, meta.channels[m].h)>>]

\* how many times the loops over the MCUs and over delta reach the
\* coordinate p of one axis: mcu_cnt MCUs of 8 * max pixels, the start of an
\* MCU held in a uint16_t
GetAnsReached(mcu_cnt, max, p) ==
    Cardinality({md \in (0..(mcu_cnt - 1)) \X (0..(8 * max - 1)) :
                     ToUint16(md[1] * ToUint16(8 * max)) + md[2] = p})

\* the number of SetPixel(y, x, ...) calls for every pixel of the image: the
\* baseline loops over the image, the faster variant over the pixels of
\* every MCU and skips those outside the image
GetAnsFasterCalls(meta, rows, cols) ==
    [p \in (DOMAIN rows) \X (DOMAIN cols) |->
        IF p[1] < meta.height /\ p[2] < meta.width
        THEN rows[p[1]] * cols[p[2]]
        ELSE 0]

GetAnsCalls(v, meta, data, g) ==
    IF v = "baseline"
    THEN [p \in (0..(meta.height - 1)) \X (0..(meta.width - 1)) |-> 1]
    ELSE GetAnsFasterCalls(meta,
             [y \in 0..(Max(meta.height, data.mcu_h * 8 * g.v_max) - 1) |->
                 GetAnsReached(data.mcu_h, g.v_max, y)],
             [x \in 0..(Max(meta.width, data.mcu_w * 8 * g.h_max) - 1) |->
                 GetAnsReached(data.mcu_w, g.h_max, x)])

\* GetAns: the loops over the MCUs set pixels and throw only through
\* YCbCrToRGB, which the baseline calls for every pixel of the image and the
\* faster variant for the pixels of each MCU
GetAnsDone(v, meta, data, g, pixels) ==
    IF g.err = "" /\ Len(data.channel_ids) = 0 /\ pixels > 0
    THEN [g EXCEPT !.err = "Channels is empty"]
    ELSE IF g.err # "" \/ g.div0 THEN g
    ELSE [g EXCEPT !.scaling = IF v = "baseline"
                               THEN GetAnsScaling(meta, data.channel_ids, g)
                               ELSE @,
                   !.calls = GetAnsCalls(v, meta, data, g)]

GetAnsPixels(v, meta, data, g) ==
    GetAnsDone(v, meta, data, g,
               IF v = "baseline" THEN meta.height * meta.width
               ELSE data.mcu_h * data.mcu_w * g.h_max * g.v_max)

GetAns(v, meta, data, garbage) ==
    GetAnsPixels(v, meta, data,
        GetAnsMax(v, meta, data.channel_ids, 1, garbage,
                  [h_max |-> 0, v_max |-> 0, oob |-> FALSE, div0 |-> FALSE,
                   err |-> "", scaling |-> <<>>, calls |-> <<>>]))

\* GetAnsOrder with the loop over block_h outside the loop over block_v
RECURSIVE GetAnsOrderByColumn(_, _, _, _, _, _, _)
GetAnsOrderByColumn(meta, data, mcu_y, mcu_x, c, block_v, block_h) ==
    IF mcu_y >= data.mcu_h THEN <<>>
    ELSE IF mcu_x >= data.mcu_w
    THEN GetAnsOrderByColumn(meta, data, mcu_y + 1, 0, 1, 0, 0)
    ELSE IF c > Len(data.channel_ids)
    THEN GetAnsOrderByColumn(meta, data, mcu_y, mcu_x + 1, 1, 0, 0)
    ELSE LET i == GetMetaByChannelId(meta, data.channel_ids[c])
         IN  IF i = 0 THEN <<>>
             ELSE IF block_h >= meta.channels[i].h
             THEN GetAnsOrderByColumn(meta, data, mcu_y, mcu_x, c + 1, 0, 0)
             ELSE IF block_v >= meta.channels[i].v
             THEN GetAnsOrderByColumn(meta, data, mcu_y, mcu_x, c, 0, block_h + 1)
             ELSE <<<<mcu_y, mcu_x, c, block_v, block_h>>>> \o
                  GetAnsOrderByColumn(meta, data, mcu_y, mcu_x, c, block_v + 1, block_h)

\* the loops of GetAns over mcu_y, mcu_x, c, block_v, block_h, from the given
\* values of the loop variables on: one <<mcu_y, mcu_x, c, block_v, block_h>>
\* for every block taken with channel_matrix[c][now_block[c]++], in the order
\* the blocks are taken
RECURSIVE GetAnsOrder(_, _, _, _, _, _, _)
GetAnsOrder(meta, data, mcu_y, mcu_x, c, block_v, block_h) ==
    IF mcu_y >= data.mcu_h THEN <<>>
    ELSE IF mcu_x >= data.mcu_w
    THEN GetAnsOrder(meta, data, mcu_y + 1, 0, 1, 0, 0)
    ELSE IF c > Len(data.channel_ids)
    THEN GetAnsOrder(meta, data, mcu_y, mcu_x + 1, 1, 0, 0)
    ELSE LET i == GetMetaByChannelId(meta, data.channel_ids[c])
         IN  IF i = 0 THEN <<>>
             ELSE IF block_v >= meta.channels[i].v
             THEN GetAnsOrder(meta, data, mcu_y, mcu_x, c + 1, 0, 0)
             ELSE IF block_h >= meta.channels[i].h
             THEN GetAnsOrder(meta, data, mcu_y, mcu_x, c, block_v + 1, 0)
             ELSE <<<<mcu_y, mcu_x, c, block_v, block_h>>>> \o
                  GetAnsOrder(meta, data, mcu_y, mcu_x, c, block_v, block_h + 1)

\* ReadByte() const: throws unless aligned; the result of in_.read is not
\* looked at, so after a failed read the uninitialized `data` is returned:
\* any byte.  Gives the set of possible outcomes.
Indeterminate == {0, 165, 217, 255}

ReadByte(r) ==
    IF r.buffer_size_ # 0
    THEN {[rd |-> r, val |-> NoValue, err |-> "Bits not aligned", refills |-> <<>>]}
    ELSE IF AtEnd(r)
         THEN {[rd |-> r, val |-> g, err |-> "", refills |-> <<>>] : g \in Indeterminate}
         ELSE {[rd |-> [r EXCEPT !.pos = r.pos + 1], val |-> r.in[r.pos + 1],
                err |-> "", refills |-> <<>>]}

\* ReadWord(): two ReadByte calls, big-endian
ReadWord(r) ==
    UNION {IF a.err # "" THEN {a}
           ELSE {IF b.err # "" THEN b
                 ELSE [b EXCEPT !.val = ToUint16(a.val * Pow2(kCharSz)) + b.val]
                 : b \in ReadByte(a.rd)}
           : a \in ReadByte(r)}

(***************************************************************************)
(* SpecBits: the BitReader on its own.  The stream is fixed by Init; each  *)
(* step is one call of the public interface.  No caller in the repository  *)
(* catches an exception, so a throw ends the run.                          *)
(***************************************************************************)
StreamBytes == {0, 165, 255}

RECURSIVE SeqsUpTo(_, _)
SeqsUpTo(S, n) ==
    IF n = 0 THEN {<<>>}
    ELSE LET shorter == SeqsUpTo(S, n - 1)
         IN  shorter \cup {Append(q, x) : q \in {t \in shorter : Len(t) = n - 1}, x \in S}

NoCall == [op |-> "none", n |-> 0, val |-> NoValue, refills |-> <<>>]

\* the parser's variables are not used by SpecBits
ParserIdle ==
    /\ variant = "baseline"
    /\ eof = FALSE
    /\ seen = <<>>
    /\ comment = <<>>
    /\ metadata = NullOpt
    /\ quantum_tables = <<>>
    /\ huffman_trees = <<>>
    /\ image_data = NullOpt
    /\ scan = NullOpt
    /\ get_ans = NullOpt

InitBits ==
    /\ pc = "bits"
    /\ err = ""
    /\ in_ \in SeqsUpTo(StreamBytes, MaxBytes)
    /\ pos = 0
    /\ buffer_ = 0
    /\ buffer_size_ = 0
    /\ last = NoCall
    /\ ParserIdle

TheReader == [in |-> in_, pos |-> pos, buffer_ |-> buffer_, buffer_size_ |-> buffer_size_]

\* the state after a call that gave outcome g
BitsAfter(op, n, g) ==
    /\ pos' = g.rd.pos
    /\ buffer_' = g.rd.buffer_
    /\ buffer_size_' = g.rd.buffer_size_
    /\ last' = [op |-> op, n |-> n, val |-> g.val, refills |-> g.refills]
    /\ err' = g.err
    /\ pc' = IF g.err # "" THEN "thrown" ELSE "bits"
    /\ UNCHANGED <<in_, parserVars>>

BitsReadBits ==
    /\ pc = "bits"
    /\ \E n \in 0..(2 * kCharSz + 1) : BitsAfter("ReadBits", n, ReadBits(TheReader, n))

BitsReadBitsSigned ==
    /\ pc = "bits"
    /\ \E n \in 0..(2 * kCharSz + 1) :
          BitsAfter("ReadBitsSigned", n, ReadBitsSigned(TheReader, n))

BitsReadByte ==
    /\ pc = "bits"
    /\ \E g \in ReadByte(TheReader) : BitsAfter("ReadByte", 0, g)

BitsReadWord ==
    /\ pc = "bits"
    /\ \E g \in ReadWord(TheReader) : BitsAfter("ReadWord", 0, g)

BitsAlign ==
    /\ pc = "bits"
    /\ BitsAfter("Align", 0, [rd |-> Align(TheReader), val |-> NoValue,
                              err |-> "", refills |-> <<>>])

NextBits ==
    \/ BitsReadBits
    \/ BitsReadBitsSigned
    \/ BitsReadByte
    \/ BitsReadWord
    \/ BitsAlign

SpecBits == InitBits /\ [][NextBits]_vars

(***************************************************************************)
(* C5.  Whenever a refill of the bit buffer in ReadBits yields 0xFF and    *)
(* the next byte of the stream is not 0x00, or the stream has ended,       *)
(* ReadBits throws, the run ends, and the call returns no value: no bit    *)
(* of that 0xFF byte reaches the caller.                                   *)
(***************************************************************************)
UnstuffedFF(p) == in_[p] = 255 /\ (p = Len(in_) \/ in_[p + 1] # 0)

C5_UnstuffedFFThrows ==
    last.op \in {"ReadBits", "ReadBitsSigned"} =>
        \A i \in 1..Len(last.refills) :
            UnstuffedFF(last.refills[i]) =>
                /\ pc = "thrown"
                /\ err = "Encountered marker instead of 0xFF"
                /\ last.val = NoValue

\* a call that had already taken bits of an earlier byte refills, gets 0xFF
\* followed by a byte other than 0x00, and throws
C5_Witness ==
    /\ last.op = "ReadBits"
    /\ Len(last.refills) = 2
    /\ in_[last.refills[2]] = 255
    /\ last.refills[2] < Len(in_)
    /\ in_[last.refills[2] + 1] = 165
    /\ pc = "thrown"

(***************************************************************************)
(* Spec: Decode(input).  The stream is supplied by the environment: each   *)
(* handler draws the bytes it reads from the small sets below.  ReadByte   *)
(* does not look at the result of in_.read, so when the stream has ended   *)
(* (eof) it yields an indeterminate byte and the handlers go on with the   *)
(* same choice of bytes; only ReadBits notices the end of the stream.      *)
(* EndOfStream is the environment's step: the bytes read so far were all   *)
(* the stream held.                                                        *)
(* The locals of ReadRawImage are destroyed when an exception leaves it.   *)
(*                                                                         *)
(* pc: "ExpectSOI", "BetweenSegments" (the while loop of ReadRawImage),    *)
(* "Quantization", "IDCT", "Rationing", "GetAns" (the next call of         *)
(* Decode), "Returned" (Decode returned the image), "thrown", "crashed".   *)
(***************************************************************************)
\* the longest run of entropy-coded bytes of a scan
MaxEcs == 2

MarkerWords == {65496, 65497, 65534, 65499, 65472, 65476, 65498, 65504, 65474}
WordsOf(marker) == {w \in MarkerWords : kWordToMarkerType(w) = marker}

CommentLengths == {1, 2, 3}
CommentBytes == {65}

MetaLengths == {1, 7, 8, 11, 14}
Precisions == {8, 12}
Dimensions == {<<8, 8>>, <<0, 8>>}
ChannelCounts == {0, 1, 2}
\* the channels of a frame header, <<id, H and V nibbles, quant_id>> each:
\* channel 1 is 1x1, channel 2 has H = 0 and V = 5
MetaChannels == {<<>>, <<<<1, 17, 0>>>>, <<<<2, 5, 0>>>>, <<<<1, 17, 0>>, <<2, 5, 0>>>>}

QuantMasks == {0, 16, 32}
QuantData == {[i \in 1..kBlockSz |-> i], [i \in 1..kBlockSz |-> 2]}
\* the first table under every mask, the second under mask 0
QuantInputs == {[mask |-> m, data |-> [i \in 1..kBlockSz |-> i]] : m \in QuantMasks}
               \cup {[mask |-> 0, data |-> [i \in 1..kBlockSz |-> 2]]}

\* histograms with n codes of length 1
Lengths1(n) == [i \in 1..16 |-> IF i = 1 THEN n ELSE 0]
HuffMasks == {0, 16, 32}
\* two codes of length 1 under every mask, three (one too many) under mask 0
HuffInputs == {[mask |-> m, code_lengths |-> Lengths1(2), values |-> <<0, 1>>] :
               m \in HuffMasks}
              \cup {[mask |-> 0, code_lengths |-> Lengths1(3), values |-> <<0, 1, 2>>]}

\* length words of a scan header with channels_cnt channels: below 2, no
\* payload, too short for the channels, too short for Ss, Se, Ah/Al, exact
ScanLengths(channels_cnt) ==
    {1, 2, 2 * channels_cnt + 2, 2 * channels_cnt + 4, 2 * channels_cnt + 6}
\* the channels of a scan header, <<id, DC and AC table nibbles>> each
ScanChannelLists == {<<>>, <<<<1, 0>>>>, <<<<2, 0>>>>, <<<<1, 1>>>>,
                     <<<<1, 0>>, <<1, 0>>>>, <<<<1, 0>>, <<2, 0>>>>}
ScanTails == {<<0, 63, 0>>, <<1, 63, 0>>, <<0, 62, 0>>, <<0, 63, 1>>}
EntropyBytes == {0, 192}
\* runs of entropy-coded bytes, and a 0xFF that is not followed by 0x00
EntropyInputs == SeqsUpTo(EntropyBytes, MaxEcs) \cup {<<255>>}
\* an integer division by zero traps (x86-64) or yields 0 (AArch64)
DivByZero == {"crash", "zero"}
GarbageChannels == {[channel_id |-> 0, h |-> 1, v |-> 1, quant_id |-> 0],
                    [channel_id |-> 0, h |-> 2, v |-> 2, quant_id |-> 0]}

\* the tables of one DQT or DHT segment: none, one of S, or first and then
\* one of S
SegmentTables(S, first) ==
    {<<>>} \cup {<<a>> : a \in S} \cup {<<first, b>> : b \in S}

\* dqt, dht: how many times each quantization-table id and each Huffman
\* <<class, id>> has been read by ReadQuantTable and ReadHuffmanTree
\* com: the ReadComment() call of the last marker, if it made one: the marker,
\* the length word and the bytes read after the marker
\* lastCom: the payload of the last COM segment that has been read
NoMarkers == [n |-> 0, first |-> NoValue, soi |-> 0, sof |-> 0, sos |-> 0,
              eoi |-> 0, sosNoSof |-> FALSE, dqt |-> <<>>, dht |-> <<>>,
              com |-> NullOpt, lastCom |-> <<>>]

\* seen, after ReadMarkerType returned marker
Saw(marker) ==
    [n |-> seen.n + 1,
     first |-> IF seen.n = 0 THEN marker ELSE seen.first,
     soi |-> seen.soi + (IF marker = "BeginFile" THEN 1 ELSE 0),
     sof |-> seen.sof + (IF marker = "Meta" THEN 1 ELSE 0),
     sos |-> seen.sos + (IF marker = "Data" THEN 1 ELSE 0),
     eoi |-> seen.eoi + (IF marker = "EndFile" THEN 1 ELSE 0),
     sosNoSof |-> seen.sosNoSof \/ (marker = "Data" /\ seen.sof = 0),
     dqt |-> seen.dqt, dht |-> seen.dht,
     com |-> NullOpt, lastCom |-> seen.lastCom]

\* seen, after ReadComment() read the length word len and the payload
SawComment(marker, len, payload) ==
    [Saw(marker) EXCEPT
        !.com = [marker |-> marker, len |-> len, read |-> 2 + Len(payload)],
        !.lastCom = IF marker = "Comment" THEN payload ELSE @]

\* times, with one more for every key of the list keys
RECURSIVE Counted(_, _)
Counted(times, keys) ==
    IF keys = <<>> THEN times
    ELSE LET k == Head(keys)
             t == IF k \in DOMAIN times
                  THEN [times EXCEPT ![k] = @ + 1]
                  ELSE times @@ (k :> 1)
         IN  Counted(t, Tail(keys))

\* seen, after ReadQuantTable returned the tables list
SawQuant(list) ==
    [Saw("Quant") EXCEPT
        !.dqt = Counted(@, [i \in 1..Len(list) |-> list[i].table_id])]

\* seen, after ReadHuffmanTree returned the tables list
SawHuffman(list) ==
    [Saw("Huffman") EXCEPT
        !.dht = Counted(@, [i \in 1..Len(list) |-> <<list[i].class, list[i].table_id>>])]

Init ==
    /\ pc = "ExpectSOI"
    /\ err = ""
    /\ in_ = <<>>
    /\ pos = 0
    /\ buffer_ = 0
    /\ buffer_size_ = 0
    /\ last = NoCall
    /\ variant \in {"baseline", "faster"}
    /\ eof = FALSE
    /\ seen = NoMarkers
    /\ comment = <<>>
    /\ metadata = NullOpt
    /\ quantum_tables = <<>>
    /\ huffman_trees = <<>>
    /\ image_data = NullOpt
    /\ scan = NullOpt
    /\ get_ans = NullOpt

\* the locals of ReadRawImage and Decode are destroyed
Unwind ==
    /\ comment' = <<>>
    /\ metadata' = NullOpt
    /\ quantum_tables' = <<>>
    /\ huffman_trees' = <<>>
    /\ image_data' = NullOpt

\* an exception leaves Decode
ThrowSeen(msg, s) ==
    /\ pc' = "thrown"
    /\ err' = msg
    /\ seen' = s
    /\ Unwind
    /\ UNCHANGED <<variant, bitVars, eof, scan, get_ans>>

Throw(msg, marker) == ThrowSeen(msg, IF marker = NoValue THEN seen ELSE Saw(marker))

\* a handler returns to the loop of ReadRawImage
SeenAs(s) ==
    /\ seen' = s
    /\ UNCHANGED <<pc, err, in_, pos, last, variant, eof>>

Seen(marker) == SeenAs(Saw(marker))

\* the stream holds no more than what has been read
EndOfStream ==
    /\ pc \in {"ExpectSOI", "BetweenSegments"}
    /\ ~eof
    /\ eof' = TRUE
    /\ UNCHANGED <<pc, err, bitVars, variant, seen, comment, metadata,
                   quantum_tables, huffman_trees, image_data, scan, get_ans>>

\* the first ReadMarkerType() of ReadRawImage
ReadSOI ==
    /\ pc = "ExpectSOI"
    /\ \E word \in MarkerWords :
          LET m == ReadMarkerType(word)
          IN  IF m.err # "" THEN Throw(m.err, NoValue)
              ELSE IF m.marker # "BeginFile" THEN Throw("No begin marker", m.marker)
              ELSE /\ pc' = "BetweenSegments"
                   /\ seen' = Saw(m.marker)
                   /\ UNCHANGED <<err, bitVars, variant, eof, comment, metadata,
                                  quantum_tables, huffman_trees, image_data, scan,
                                  get_ans>>

\* the loop of ReadRawImage has read a marker
InLoop == pc = "BetweenSegments" /\ seen.n <= MaxSegments

OnUnknownMarker ==
    /\ InLoop
    /\ \E word \in WordsOf(NoValue) : Throw(ReadMarkerType(word).err, NoValue)

OnBeginFileIgnored ==
    /\ InLoop
    /\ \E word \in WordsOf("BeginFile") :
          /\ Seen("BeginFile")
          /\ UNCHANGED <<buffer_, buffer_size_, comment, metadata, quantum_tables,
                         huffman_trees, image_data, scan, get_ans>>

OnBeginFile ==
    /\ InLoop
    /\ \E word \in WordsOf("BeginFile") :
          Throw("Begin marker in bad place", "BeginFile")

\* ReadImageMeta(), in the order it reads: the length, the precision, the
\* height, the width, the number of channels, three bytes for each channel
MetaSegment ==
    \E len \in MetaLengths :
       LET z == ReadSz(len)
       IN  IF z.err # "" THEN Throw(z.err, "Meta")
           ELSE IF z.sz < 6 THEN Throw(ReadImageMetaHead(z.sz, 0, 0, 0), "Meta")
           ELSE \E precision \in Precisions, dim \in Dimensions,
                   channels_cnt \in ChannelCounts :
                   LET head == ReadImageMetaHead(z.sz, dim[1], dim[2], channels_cnt)
                   IN  IF head # "" THEN Throw(head, "Meta")
                       ELSE \E triples \in {t \in MetaChannels : Len(t) = channels_cnt} :
                               /\ metadata' = ReadImageMeta(precision, dim[1], dim[2],
                                                            channels_cnt, triples)
                               /\ Seen("Meta")
                               /\ UNCHANGED <<buffer_, buffer_size_, comment,
                                              quantum_tables, huffman_trees,
                                              image_data, scan, get_ans>>

OnMetaAgain ==
    /\ InLoop
    /\ \E word \in WordsOf("Meta") : MetaSegment

OnMeta ==
    /\ InLoop
    /\ \E word \in WordsOf("Meta") :
          IF metadata # NullOpt THEN Throw("Two SOF markers", "Meta")
          ELSE MetaSegment

\* ReadComment() with the length word and the payload; the APPn branch
\* drops what it returns
OnComment ==
    /\ InLoop
    /\ \E word \in WordsOf("Comment"), len \in CommentLengths :
          LET z == ReadSz(len)
          IN  IF z.err # "" THEN Throw(z.err, "Comment")
              ELSE \E payload \in [1..z.sz -> CommentBytes] :
                      /\ comment' = payload
                      /\ SeenAs(SawComment("Comment", len, payload))
                      /\ UNCHANGED <<buffer_, buffer_size_, metadata, quantum_tables,
                                     huffman_trees, image_data, scan, get_ans>>

OnAPPnStores ==
    /\ InLoop
    /\ \E word \in WordsOf("APPn"), len \in CommentLengths :
          LET z == ReadSz(len)
          IN  IF z.err # "" THEN Throw(z.err, "APPn")
              ELSE \E payload \in [1..z.sz -> CommentBytes] :
                      /\ comment' = payload
                      /\ SeenAs(SawComment("APPn", len, payload))
                      /\ UNCHANGED <<buffer_, buffer_size_, metadata,
                                     quantum_tables, huffman_trees, image_data, scan,
                                     get_ans>>

OnAPPn ==
    /\ InLoop
    /\ \E word \in WordsOf("APPn"), len \in CommentLengths :
          LET z == ReadSz(len)
          IN  IF z.err # "" THEN Throw(z.err, "APPn")
              ELSE \E payload \in [1..z.sz -> CommentBytes] :
                      /\ SeenAs(SawComment("APPn", len, payload))
                      /\ UNCHANGED <<buffer_, buffer_size_, comment, metadata,
                                     quantum_tables, huffman_trees, image_data, scan,
                                     get_ans>>

\* the payload length that holds exactly the tables tabs
RECURSIVE QuantNeed(_)
QuantNeed(tabs) ==
    IF tabs = <<>> THEN 0
    ELSE 1 + kBlockSz * (IF HiNibble(Head(tabs).mask) = 1 THEN 2 ELSE 1)
         + QuantNeed(Tail(tabs))

RECURSIVE HuffNeed(_)
HuffNeed(tabs) ==
    IF tabs = <<>> THEN 0
    ELSE 17 + SumSeq(Head(tabs).code_lengths) + HuffNeed(Tail(tabs))

\* length words: below 2, and one short of, equal to and one beyond the
\* payload of need bytes
LengthsAround(need) == {1, 1 + need, 2 + need, 3 + need}

\* ReadQuantTable() and the insertion into quantum_tables.  The payload
\* holds the tables tabs and nothing else: every table is read (used), and
\* none is asked for that the payload does not hold (short).
OnQuant ==
    /\ InLoop
    /\ \E word \in WordsOf("Quant"),
          tabs \in SegmentTables(QuantInputs,
                                 [mask |-> 0, data |-> [i \in 1..kBlockSz |-> i]]) :
       \E len \in LengthsAround(QuantNeed(tabs)) :
          LET z == ReadSz(len)
              r == ReadQuantTable(variant, z.sz, tabs, 1, <<>>)
              ins == InsertQuant(quantum_tables, r.ans, 1)
          IN  IF z.err # "" THEN tabs = <<>> /\ Throw(z.err, "Quant")
              ELSE /\ ~r.short
                   /\ r.used = Len(tabs)
                   /\ IF r.err # "" THEN ThrowSeen(r.err, SawQuant(r.ans))
                      ELSE IF ins.err # "" THEN ThrowSeen(ins.err, SawQuant(r.ans))
                      ELSE /\ quantum_tables' = ins.tables
                           /\ SeenAs(SawQuant(r.ans))
                           /\ UNCHANGED <<buffer_, buffer_size_, comment, metadata,
                                          huffman_trees, image_data, scan, get_ans>>

\* ReadHuffmanTree() and the insertion into huffman_trees
OnHuffman ==
    /\ InLoop
    /\ \E word \in WordsOf("Huffman"),
          tabs \in SegmentTables(HuffInputs,
                                 [mask |-> 0, code_lengths |-> Lengths1(2),
                                  values |-> <<0, 1>>]) :
       \E len \in LengthsAround(HuffNeed(tabs)) :
          LET z == ReadSz(len)
              r == ReadHuffmanTree(z.sz, tabs, 1, <<>>)
              ins == InsertHuffman(variant, huffman_trees, r.ans, 1)
          IN  IF z.err # "" THEN tabs = <<>> /\ Throw(z.err, "Huffman")
              ELSE /\ ~r.short
                   /\ r.used = Len(tabs)
                   /\ IF r.err # "" THEN ThrowSeen(r.err, SawHuffman(r.ans))
                      ELSE IF ins.err # "" THEN ThrowSeen(ins.err, SawHuffman(r.ans))
                      ELSE /\ huffman_trees' = ins.trees
                           /\ SeenAs(SawHuffman(r.ans))
                           /\ UNCHANGED <<buffer_, buffer_size_, comment, metadata,
                                          quantum_tables, image_data, scan, get_ans>>

\* ImageData, with the result of an earlier scan kept where there is one
ImageDataOfFirstScan(chans, d) ==
    IF image_data # NullOpt THEN image_data
    ELSE [channel_matrix |-> d.channel_matrix,
          channel_ids |-> [c \in 1..Len(chans) |-> chans[c].channel_id],
          mcu_h |-> d.mcu_h, mcu_w |-> d.mcu_w]

\* image_data = ImageData(channel_matrix, channel_ids, mcu_h, mcu_w): what
\* ReadImageData returns is assigned to image_data of ReadRawImage
ImageData(chans, d) ==
    [channel_matrix |-> d.channel_matrix,
     channel_ids |-> [c \in 1..Len(chans) |-> chans[c].channel_id],
     mcu_h |-> d.mcu_h, mcu_w |-> d.mcu_w]

\* ReadImageData after the header gave d, and bit_reader_.Align().  ecs is
\* what the stream holds from here on, as far as the decode reads it: the
\* decode takes all of it, or runs into the end of the stream behind it.
ScanDone(chans, started, ecs, d) ==
    IF d.err = "crash"
    THEN /\ pc' = "crashed"
         /\ seen' = Saw("Data")
         /\ scan' = started
         /\ Unwind
         /\ UNCHANGED <<err, bitVars, variant, eof, get_ans>>
    ELSE IF d.err # ""
    THEN /\ pc' = "thrown"
         /\ err' = d.err
         /\ seen' = Saw("Data")
         /\ scan' = started
         /\ eof' = (eof \/ d.err = "EOF")
         /\ Unwind
         /\ UNCHANGED <<bitVars, variant, get_ans>>
    ELSE /\ d.rd.pos = Len(ecs)
         /\ image_data' = ImageData(chans, d)
         /\ huffman_trees' = d.trees
         /\ buffer_' = Align(d.rd).buffer_
         /\ buffer_size_' = Align(d.rd).buffer_size_
         /\ scan' = started
         /\ Seen("Data")
         /\ UNCHANGED <<comment, metadata, quantum_tables, get_ans>>

ScanData(chans, tail, ecs, div0) ==
    ScanDone(chans,
             [channels_cnt |-> Len(chans), ss |-> tail[1], se |-> tail[2],
              ah |-> tail[3],
              refs |-> [c \in 1..Len(chans) |-> <<chans[c].dc_id, chans[c].ac_id>>],
              defined |-> DOMAIN seen.dht,
              ids |-> [c \in 1..Len(chans) |-> chans[c].channel_id],
              order |-> LET d == ReadScanData(variant, huffman_trees, metadata,
                                              chans, ecs, div0)
                        IN  IF d.err # "" THEN <<>>
                            ELSE ReadImageDataOrder(metadata,
                                     [c \in 1..Len(chans) |-> chans[c].channel_id],
                                     d.mcu_h, d.mcu_w, 0, 0, 1, 0, 0)],
             ecs,
             ReadScanData(variant, huffman_trees, metadata, chans, ecs, div0))

\* ReadImageData(huffman_trees, meta), in the order it reads: the length, the
\* number of channels, two bytes for each channel, Ss, Se, Ah/Al, the rest of
\* the payload, the entropy-coded bytes
OnData ==
    /\ InLoop
    /\ \E word \in WordsOf("Data") :
          IF metadata = NullOpt
          THEN Throw("No metadata before reading image data", "Data")
          ELSE \E channels_cnt \in ChannelCounts :
               \E len \in ScanLengths(channels_cnt) :
               LET z == ReadSz(len)
               IN  IF z.err # "" THEN Throw(z.err, "Data")
                   ELSE IF z.sz < 1 THEN Throw("No info about channels cnt", "Data")
                   ELSE IF z.sz - 1 < channels_cnt * 2
                        THEN Throw("Bad image data size", "Data")
                        ELSE \E pairs \in {q \in ScanChannelLists :
                                                Len(q) = channels_cnt} :
                             LET s == ScanChannels(variant, huffman_trees, pairs, 1, <<>>)
                             IN  IF s.err # "" THEN Throw(s.err, "Data")
                                 ELSE IF z.sz - 1 - channels_cnt * 2 < 3
                                 THEN Throw("Bad SOS header", "Data")
                                 ELSE \E tail \in ScanTails :
                                      IF tail[2] # 63
                                      THEN Throw("Inconsistent SOS for baseline JPEG",
                                                 "Data")
                                      ELSE \E ecs \in (IF eof THEN {<<>>}
                                                       ELSE EntropyInputs),
                                              div0 \in (IF ZeroSampling(metadata)
                                                        THEN DivByZero
                                                        ELSE {"none"}) :
                                              ScanData(s.chans, tail, ecs, div0)

OnEndFileNoCheck ==
    /\ pc = "BetweenSegments"
    /\ \E word \in WordsOf("EndFile") :
          /\ pc' = "Quantization"
          /\ seen' = Saw("EndFile")
          /\ UNCHANGED <<err, bitVars, variant, eof, comment, metadata,
                         quantum_tables, huffman_trees, image_data, scan, get_ans>>

\* EOI: the loop ends and ReadRawImage returns the RawImage, or throws
OnEndFile ==
    /\ pc = "BetweenSegments"
    /\ \E word \in WordsOf("EndFile") :
          IF image_data = NullOpt \/ metadata = NullOpt
          THEN Throw("No image/meta data in file", "EndFile")
          ELSE /\ pc' = "Quantization"
               /\ seen' = Saw("EndFile")
               /\ UNCHANGED <<err, bitVars, variant, eof, comment, metadata,
                              quantum_tables, huffman_trees, image_data, scan,
                              get_ans>>

\* Quantization(raw_image, image_data)
DoQuantization ==
    /\ pc = "Quantization"
    /\ LET q == Quantization(variant, metadata, quantum_tables, image_data, 1)
       IN  IF q.err # "" THEN Throw(q.err, NoValue)
           ELSE /\ image_data' = [image_data EXCEPT !.channel_matrix = q.channel_matrix]
                /\ pc' = "IDCT"
                /\ UNCHANGED <<err, bitVars, variant, eof, seen, comment, metadata,
                               quantum_tables, huffman_trees, scan, get_ans>>

\* IDCT(image_data)
DoIDCT ==
    /\ pc = "IDCT"
    /\ image_data' = [image_data EXCEPT !.channel_matrix = IDCT(@)]
    /\ pc' = "Rationing"
    /\ UNCHANGED <<err, bitVars, variant, eof, seen, comment, metadata,
                   quantum_tables, huffman_trees, scan, get_ans>>

\* Rationing(image_data)
DoRationing ==
    /\ pc = "Rationing"
    /\ image_data' = [image_data EXCEPT !.channel_matrix = Rationing(@)]
    /\ pc' = "GetAns"
    /\ UNCHANGED <<err, bitVars, variant, eof, seen, comment, metadata,
                   quantum_tables, huffman_trees, scan, get_ans>>

\* GetAns(image_data, meta, ans), and Decode returns ans.  Reading
\* meta.channels past its end and dividing by zero are undefined: the run
\* crashes, or goes on with what was read.
DoGetAns ==
    /\ pc = "GetAns"
    /\ \E garbage \in GarbageChannels, ub \in {"crash", "go on"} :
          LET g == GetAns(variant, metadata, image_data, garbage)
          IN  /\ get_ans' = [h_max |-> g.h_max, v_max |-> g.v_max, oob |-> g.oob,
                             div0 |-> g.div0, scaling |-> g.scaling,
                             calls |-> g.calls,
                             order |-> IF g.err # "" THEN <<>>
                                       ELSE GetAnsOrder(metadata, image_data,
                                                        0, 0, 1, 0, 0)]
              /\ pc' = IF (g.oob \/ g.div0) /\ ub = "crash" THEN "crashed"
                       ELSE IF g.err # "" THEN "thrown"
                       ELSE "Returned"
              /\ err' = IF (g.oob \/ g.div0) /\ ub = "crash" THEN err ELSE g.err
              /\ IF pc' = "Returned"
                 THEN UNCHANGED <<comment, metadata, quantum_tables, huffman_trees,
                                  image_data>>
                 ELSE Unwind
              /\ UNCHANGED <<bitVars, variant, eof, seen, scan>>

Next ==
    \/ EndOfStream
    \/ ReadSOI
    \/ OnUnknownMarker
    \/ OnBeginFile
    \/ OnMeta
    \/ OnComment
    \/ OnAPPn
    \/ OnQuant
    \/ OnHuffman
    \/ OnData
    \/ OnEndFile
    \/ DoQuantization
    \/ DoIDCT
    \/ DoRationing
    \/ DoGetAns

Spec == Init /\ [][Next]_vars

(***************************************************************************)
(* The claims about Decode, checked under Spec.                            *)
(***************************************************************************)
\* ReadRawImage has returned the RawImage
Parsed == pc \in {"Quantization", "IDCT", "Rationing", "GetAns", "Returned"}

Thrown(msg) == pc = "thrown" /\ err = msg

(***************************************************************************)
(* C1.  ReadRawImage throws unless the first marker it reads is SOI; an    *)
(* SOI read at any later position before EOI throws "Begin marker in bad   *)
(* place"; every successful parse has read exactly one SOI, as its first   *)
(* marker.                                                                 *)
(***************************************************************************)
C1_OneSOIFirst ==
    /\ (pc # "ExpectSOI" /\ seen.first # "BeginFile") =>
           (Thrown("No begin marker") \/ Thrown("Unknown marker"))
    /\ seen.soi >= 2 => (Thrown("Begin marker in bad place") /\ seen.soi = 2)
    /\ Parsed => (seen.soi = 1 /\ seen.first = "BeginFile")

\* a second SOI after other segments has been read
C1_Witness ==
    /\ Thrown("Begin marker in bad place")
    /\ seen.soi = 2
    /\ seen.n >= 3

(***************************************************************************)
(* C2.  A second SOF0 read before EOI makes ReadRawImage throw "Two SOF    *)
(* markers", whatever segments lie between the two; every successful       *)
(* parse has processed exactly one frame header.                           *)
(***************************************************************************)
C2_OneFrameHeader ==
    /\ seen.sof >= 2 => (Thrown("Two SOF markers") /\ seen.sof = 2)
    /\ Parsed => seen.sof = 1

\* the second SOF0 came after SOI, the first SOF0 and another segment
C2_Witness ==
    /\ Thrown("Two SOF markers")
    /\ seen.sof = 2
    /\ seen.n >= 4

(***************************************************************************)
(* C3.  ReadRawImage returns a RawImage only if it has read a SOF0 and at  *)
(* least one SOS, every SOS after the SOF0: an SOS with no earlier SOF0    *)
(* throws "No metadata before reading image data", and an EOI read without *)
(* both a frame header and scan data throws "No image/meta data in file".  *)
(* (The segments are those of the loop, after the SOI: a first marker      *)
(* other than SOI is C1's case.)                                           *)
(***************************************************************************)
C3_FrameAndScanBeforeEOI ==
    /\ Parsed => (seen.sof >= 1 /\ seen.sos >= 1 /\ ~seen.sosNoSof)
    /\ (seen.first = "BeginFile" /\ seen.sosNoSof) =>
           Thrown("No metadata before reading image data")
    /\ (seen.first = "BeginFile" /\ seen.eoi >= 1 /\ (seen.sof = 0 \/ seen.sos = 0)) =>
           Thrown("No image/meta data in file")

\* ReadRawImage returned after a frame header and a scan
C3_Witness ==
    /\ pc = "Quantization"
    /\ seen.sof = 1
    /\ seen.sos >= 1
    /\ seen.eoi = 1

(***************************************************************************)
(* C4.  When the stream ends before the segment loop has read an EOI       *)
(* marker, Decode ends with an error and never returns an image.           *)
(***************************************************************************)
C4_TruncatedStreamFails == eof => pc # "Returned"

(***************************************************************************)
(* C6.  Every ImageMetadata that ReadImageMeta returns has precision 8.    *)
(***************************************************************************)
C6_PrecisionIs8 == metadata # NullOpt => metadata.precision = 8

(***************************************************************************)
(* C7.  Every frame header that ReadImageMeta accepts has, for each        *)
(* channel, h and v in 1..4, so a nibble equal to 0 or greater than 4      *)
(* never reaches ReadImageData or GetAns.                                  *)
(***************************************************************************)
C7_SamplingFactorsInRange ==
    metadata # NullOpt =>
        \A c \in 1..Len(metadata.channels) :
            /\ metadata.channels[c].h \in 1..4
            /\ metadata.channels[c].v \in 1..4

(***************************************************************************)
(* C8.  ReadImageData accepts a scan header, and entropy decoding starts,  *)
(* only when Ss, Se, Ah<<4|Al are exactly 0, 63, 0.                        *)
(***************************************************************************)
C8_ScanParametersChecked ==
    scan # NullOpt => (scan.ss = 0 /\ scan.se = 63 /\ scan.ah = 0)

(***************************************************************************)
(* C9.  In every ImageData that ReadImageData returns the number of scan   *)
(* channels is at most the number of channels of the frame header, and     *)
(* GetAns never reads meta.channels[i] with i >= N.                        *)
(***************************************************************************)
C9_ScanChannelsWithinFrame ==
    /\ image_data # NullOpt =>
           Len(image_data.channel_ids) <= Len(metadata.channels)
    /\ get_ans # NullOpt => ~get_ans.oob

(***************************************************************************)
(* C10.  No Huffman table whose header byte has a high nibble other than   *)
(* 0 (DC) or 1 (AC) is stored in huffman_trees.                            *)
(***************************************************************************)
C10_TableClassChecked ==
    \A key \in DOMAIN huffman_trees : huffman_trees[key].class \in {0, 1}

(***************************************************************************)
(* SpecColor: YCbCrToRGB(channels) of the two variants on vectors of 0..3  *)
(* samples.  The baseline computes in long double with the double          *)
(* constants 1.402, 0.344136, 0.714136, 1.772; these are modelled by their *)
(* decimal values, and where the exact value lies half way between two     *)
(* integers the result of llround is either of them (it depends on the     *)
(* width of long double).                                                  *)
(***************************************************************************)
\* clamp8 of the faster variant: v_fp >> 10, clamped
Clamp8(v_fp) ==
    LET v == v_fp \div 1024
    IN  IF v < 0 THEN 0 ELSE IF v > 255 THEN 255 ELSE v

\* YCbCrToRGB of the faster variant
YCbCrToRGBFaster(channels) ==
    IF channels = <<>> THEN [err |-> "Channels is empty", rgb |-> <<>>]
    ELSE LET y == channels[1] * 1024
             cb == IF Len(channels) > 1 THEN channels[2] - 128 ELSE 0
             cr == IF Len(channels) > 2 THEN channels[3] - 128 ELSE 0
             r_ans == y + 1402 * cr
             g_ans == y - 344 * cb - 714 * cr
             b_fp == y + 1772 * cb
         IN  [err |-> "", rgb |-> <<Clamp8(r_ans), Clamp8(g_ans), Clamp8(b_fp)>>]

\* llround(max(0, min(255, num / den))): the values it can give
ClampRound(num, den) ==
    IF num <= 0 THEN {0}
    ELSE IF num >= 255 * den THEN {255}
    ELSE IF (2 * num) % (2 * den) = den
         THEN {num \div den, (num \div den) + 1}
         ELSE {(2 * num + den) \div (2 * den)}

\* YCbCrToRGB of the baseline variant: the results it can give
YCbCrToRGBBaseline(channels) ==
    IF channels = <<>> THEN {[err |-> "Channels is empty", rgb |-> <<>>]}
    ELSE LET y == channels[1]
             cb == IF Len(channels) > 1 THEN channels[2] ELSE 128
             cr == IF Len(channels) > 2 THEN channels[3] ELSE 128
             r == 1000 * y + 1402 * (cr - 128)
             g == 1000000 * y - 344136 * (cb - 128) - 714136 * (cr - 128)
             b == 1000 * y + 1772 * (cb - 128)
         IN  {[err |-> "", rgb |-> <<rr, gg, bb>>] :
                 rr \in ClampRound(r, 1000), gg \in ClampRound(g, 1000000),
                 bb \in ClampRound(b, 1000)}

YCbCrToRGB(v, channels) ==
    IF v = "baseline" THEN YCbCrToRGBBaseline(channels)
    ELSE {YCbCrToRGBFaster(channels)}

\* sample values of the channels after Rationing (0..255)
ColorSamples == {0, 3, 76, 85, 128, 255}

InitColor ==
    /\ pc = "color"
    /\ err = ""
    /\ in_ = <<>>
    /\ pos = 0
    /\ buffer_ = 0
    /\ buffer_size_ = 0
    /\ last \in {[op |-> "none", channels |-> ch, rgb |-> <<>>, ref |-> <<>>] :
                     ch \in SeqsUpTo(ColorSamples, 3)}
    /\ variant \in {"baseline", "faster"}
    /\ eof = FALSE
    /\ seen = <<>>
    /\ comment = <<>>
    /\ metadata = NullOpt
    /\ quantum_tables = <<>>
    /\ huffman_trees = <<>>
    /\ image_data = NullOpt
    /\ scan = NullOpt
    /\ get_ans = NullOpt

\* one call of YCbCrToRGB; ref is what the baseline gives for the same vector
DoYCbCrToRGB ==
    /\ pc = "color"
    /\ \E c \in YCbCrToRGB(variant, last.channels),
          b \in YCbCrToRGBBaseline(last.channels) :
          /\ variant = "baseline" => b = c
          /\ last' = [op |-> "YCbCrToRGB", channels |-> last.channels,
                      rgb |-> c.rgb, ref |-> b.rgb]
          /\ err' = c.err
          /\ pc' = IF c.err # "" THEN "thrown" ELSE "Returned"
    /\ UNCHANGED <<in_, pos, buffer_, buffer_size_, parserVars>>

NextColor == DoYCbCrToRGB

SpecColor == InitColor /\ [][NextColor]_vars

(***************************************************************************)
(* SpecPixels: GetAns(image_data, meta, ans) on what ReadImageData returns *)
(* for frames with 1..3 channels, scans of all or one of their channels    *)
(* and images that end inside or at the edge of an MCU.  The blocks hold   *)
(* the value 128.                                                          *)
(***************************************************************************)
PixelChannel(id, h, v) == [channel_id |-> id, h |-> h, v |-> v, quant_id |-> 0]

\* the channels of the frame header
PixelFrames ==
    {<<PixelChannel(1, 1, 1)>>,
     <<PixelChannel(1, 2, 2), PixelChannel(2, 1, 1), PixelChannel(3, 1, 1)>>,
     <<PixelChannel(1, 1, 1), PixelChannel(2, 2, 2)>>,
     <<PixelChannel(1, 2, 1), PixelChannel(2, 1, 2)>>}

\* the channel ids of the scan: all channels of the frame, the first, the last
PixelScans(channels) ==
    {[c \in 1..Len(channels) |-> channels[c].channel_id],
     <<channels[1].channel_id>>,
     <<channels[Len(channels)].channel_id>>}

\* <<height, width>>
PixelDims == {<<8, 8>>, <<9, 17>>, <<16, 16>>, <<1, 33>>}

\* the ImageData that ReadImageData returns for the scan channel_ids
PixelImage(meta, channel_ids, mcu_h, mcu_w) ==
    [channel_matrix |->
        [c \in 1..Len(channel_ids) |->
            LET m == meta.channels[GetMetaByChannelId(meta, channel_ids[c])]
            IN  [k \in 1..(mcu_h * mcu_w * m.h * m.v) |-> [i \in 1..kBlockSz |-> 128]]],
     channel_ids |-> channel_ids, mcu_h |-> mcu_h, mcu_w |-> mcu_w]

InitPixels ==
    /\ pc = "GetAns"
    /\ err = ""
    /\ in_ = <<>>
    /\ pos = 0
    /\ buffer_ = 0
    /\ buffer_size_ = 0
    /\ last = NoCall
    /\ variant \in {"baseline", "faster"}
    /\ eof = FALSE
    /\ seen = NoMarkers
    /\ comment = <<>>
    /\ \E channels \in PixelFrames, dim \in PixelDims :
          /\ metadata = ReadImageMeta(8, dim[1], dim[2], Len(channels),
                                      [c \in 1..Len(channels) |->
                                          <<channels[c].channel_id,
                                            16 * channels[c].h + channels[c].v, 0>>])
          /\ \E channel_ids \in PixelScans(channels) :
                image_data =
                    PixelImage(metadata, channel_ids,
                        McuCount(dim[1], MaxOver(channels, Len(channels), "v")),
                        McuCount(dim[2], MaxOver(channels, Len(channels), "h")))
    /\ quantum_tables = <<>>
    /\ huffman_trees = <<>>
    /\ scan = NullOpt
    /\ get_ans = NullOpt

NextPixels == DoGetAns

SpecPixels == InitPixels /\ [][NextPixels]_vars

(***************************************************************************)
(* C15.  When GetAns has returned, SetPixel(y, x, ...) has been called     *)
(* exactly once for every pixel (y, x) of the image and not at all for any *)
(* other coordinate the loops reach.                                       *)
(***************************************************************************)
C15_EveryPixelSetOnce ==
    (pc = "Returned" /\ get_ans # NullOpt) =>
        /\ (0..(metadata.height - 1)) \X (0..(metadata.width - 1))
               \subseteq DOMAIN get_ans.calls
        /\ \A p \in DOMAIN get_ans.calls :
               get_ans.calls[p] =
                   IF p[1] < metadata.height /\ p[2] < metadata.width THEN 1 ELSE 0

(***************************************************************************)
(* C16.  When GetAns has returned, the samples of every scan channel c     *)
(* were replicated over v_scale x h_scale pixels with v_scale = V / v and  *)
(* h_scale = H / h, where v and h are the sampling factors of the channel  *)
(* and V and H the maxima over all channels of the frame.                  *)
(***************************************************************************)
C16_ScaleFromMaxima ==
    (pc = "Returned" /\ get_ans # NullOpt) =>
        \A c \in 1..Len(image_data.channel_ids) :
            LET m == metadata.channels[GetMetaByChannelId(metadata,
                                                          image_data.channel_ids[c])]
                n == Len(metadata.channels)
            IN  get_ans.scaling[c] =
                    <<MaxOver(metadata.channels, n, "v") \div m.v,
                      MaxOver(metadata.channels, n, "h") \div m.h>>

(***************************************************************************)
(* SpecHuffman: HuffmanTree::Build on a histogram and a list of values,    *)
(* and then Move on the bits of the canonical codes of some of the         *)
(* symbols.  The tree is huffman_trees[<<0, TRUE>>].                       *)
(***************************************************************************)
\* the lengths of the canonical codes of a histogram, symbol by symbol
RECURSIVE CanonicalLengths(_, _)
CanonicalLengths(code_lengths, l) ==
    IF l > Len(code_lengths) THEN <<>>
    ELSE [k \in 1..code_lengths[l] |-> l] \o CanonicalLengths(code_lengths, l + 1)

\* the canonical code of symbol i as a number: the first is 0, each next is
\* the one before plus 1, shifted left by the increase of the length
RECURSIVE CanonicalCode(_, _)
CanonicalCode(lens, i) ==
    IF i = 1 THEN 0
    ELSE (CanonicalCode(lens, i - 1) + 1) * Pow2(lens[i] - lens[i - 1])

\* the len bits of code, first bit first
CodeBits(code, len) == [k \in 1..len |-> (code \div Pow2(len - k)) % 2]

CanonicalBits(code_lengths, i) ==
    LET lens == CanonicalLengths(code_lengths, 1)
    IN  CodeBits(CanonicalCode(lens, i), lens[i])

\* the concatenated canonical codes of the symbols syms[j..]
RECURSIVE Encode(_, _, _)
Encode(code_lengths, syms, j) ==
    IF j > Len(syms) THEN <<>>
    ELSE CanonicalBits(code_lengths, syms[j]) \o Encode(code_lengths, syms, j + 1)

\* a histogram of 16 entries that starts with prefix
Histogram(prefix) == [i \in 1..16 |-> IF i <= Len(prefix) THEN prefix[i] ELSE 0]

\* calls of Build: the histograms with up to 3 codes of each of the lengths
\* 1..3, and one whose sum is 256, with one value too few, as many values as
\* the histogram counts, and one too many
BuildCalls ==
    {[code_lengths |-> Histogram(prefix), values |-> [i \in 1..n |-> 9 + i]] :
        prefix \in SeqsUpTo(0..3, 3) \cup {<<128, 128>>},
        n \in 0..10}

\* the most symbols whose codes are fed to Move
MaxSymbols == 2

InitHuffman ==
    /\ pc = "Build"
    /\ err = ""
    /\ in_ = <<>>
    /\ pos = 0
    /\ buffer_ = 0
    /\ buffer_size_ = 0
    /\ \E call \in BuildCalls :
          /\ Len(call.values) - SumSeq(call.code_lengths) \in {-256, -1, 0, 1}
          /\ last = [op |-> "none", code_lengths |-> call.code_lengths,
                     values |-> call.values, oob |-> FALSE, syms |-> <<>>,
                     feed |-> <<>>, fed |-> 0, out |-> <<>>]
    /\ ParserIdle

\* Build(code_lengths, values), and the choice of the symbols whose codes
\* will be fed to Move
HuffBuild ==
    /\ pc = "Build"
    /\ LET b == Build(last.code_lengths, last.values)
       IN  /\ err' = b.err
           /\ pc' = IF b.err # "" THEN "thrown" ELSE "Move"
           /\ huffman_trees' = (TreeKey("baseline", 0, TRUE) :>
                                   [nodes |-> b.tree.nodes, state_ |-> b.tree.state_,
                                    class |-> 0])
           /\ \E syms \in (IF b.err # "" THEN {<<>>}
                            ELSE SeqsUpTo(1..Min(Len(last.values),
                                                 SumSeq(last.code_lengths)),
                                          MaxSymbols)) :
                 last' = [last EXCEPT !.op = "Build", !.oob = b.oob, !.syms = syms,
                                      !.feed = Encode(last.code_lengths, syms, 1)]
    /\ UNCHANGED <<in_, pos, buffer_, buffer_size_, variant, eof, seen, comment,
                   metadata, quantum_tables, image_data, scan, get_ans>>

\* Move(bit, value) on the next bit; out holds, for every call that returned
\* true, the number of bits fed so far and the value
HuffMove ==
    /\ pc = "Move"
    /\ last.feed # <<>>
    /\ LET key == TreeKey("baseline", 0, TRUE)
           m == Move(huffman_trees[key], Head(last.feed))
       IN  /\ err' = m.err
           /\ pc' = IF m.err # "" THEN "thrown" ELSE "Move"
           /\ huffman_trees' = [huffman_trees EXCEPT ![key].state_ = m.tree.state_]
           /\ last' = [last EXCEPT
                          !.op = "Move", !.feed = Tail(@), !.fed = @ + 1,
                          !.out = IF m.err = "" /\ m.done
                                  THEN Append(@, <<last.fed + 1, m.value>>)
                                  ELSE @]
    /\ UNCHANGED <<in_, pos, buffer_, buffer_size_, variant, eof, seen, comment,
                   metadata, quantum_tables, image_data, scan, get_ans>>

NextHuffman ==
    \/ HuffBuild
    \/ HuffMove

SpecHuffman == InitHuffman /\ [][NextHuffman]_vars

\* no canonical code runs over the codes of its length
CanonicalFits(code_lengths) ==
    LET lens == CanonicalLengths(code_lengths, 1)
    IN  \A i \in 1..Len(lens) : CanonicalCode(lens, i) < Pow2(lens[i])

(***************************************************************************)
(* C18.  Build returns normally exactly when there are as many values as   *)
(* the histogram counts and every code fits at its length; otherwise it    *)
(* throws.  It never reads an element outside the histogram.               *)
(***************************************************************************)
C18_BuildAcceptsExactly ==
    (last.op = "Build") =>
        /\ (err = "") <=> (/\ Len(last.values) = SumSeq(last.code_lengths)
                           /\ CanonicalFits(last.code_lengths))
        /\ ~last.oob

\* the bits fed when the code of the j-th symbol of syms has been fed
RECURSIVE FedAfter(_, _, _)
FedAfter(code_lengths, syms, j) ==
    IF j = 0 THEN 0
    ELSE FedAfter(code_lengths, syms, j - 1)
         + CanonicalLengths(code_lengths, 1)[syms[j]]

(***************************************************************************)
(* C19.  After a successful Build the leaf of symbol i lies at the path of *)
(* its canonical code and holds values[i]; Move returns true exactly on    *)
(* the last bit of each code fed to it, with the value of that symbol, and *)
(* is at the root again afterwards.                                        *)
(***************************************************************************)
C19_DecodeInvertsCanonicalCode ==
    (pc = "Move" /\ last.op \in {"Build", "Move"}) =>
        LET tree == huffman_trees[TreeKey("baseline", 0, TRUE)]
            done == {j \in 0..Len(last.syms) :
                        FedAfter(last.code_lengths, last.syms, j) <= last.fed}
            k == CHOOSE j \in done : \A i \in done : i <= j
        IN  /\ \A i \in 1..Len(last.values) :
                   LET code == CanonicalBits(last.code_lengths, i)
                   IN  /\ code \in DOMAIN tree.nodes
                       /\ tree.nodes[code] = Leaf(last.values[i])
            /\ last.out = [j \in 1..k |->
                              <<FedAfter(last.code_lengths, last.syms, j),
                                last.values[last.syms[j]]>>]
            /\ (last.fed = FedAfter(last.code_lengths, last.syms, k))
                   => tree.state_ = <<>>

\* two symbols with codes of different lengths have been decoded
C19_Witness ==
    /\ pc = "Move"
    /\ last.op = "Move"
    /\ last.feed = <<>>
    /\ Len(last.out) = 2
    /\ last.out[1][2] # last.out[2][2]
    /\ last.out[2][1] - last.out[1][1] # last.out[1][1]

(***************************************************************************)
(* SpecBlock: the block loops of ReadImageData on one or two scan channels *)
(* with h = v = 1 that share one DC and one AC codebook; one step is one   *)
(* call of ReadBlock.  The DC codebook has four codes of 2 bits, the AC    *)
(* codebook the code 0 for the end of the block and four codes of 3 bits.  *)
(***************************************************************************)
\* the most bytes of an entropy-coded stream drawn from BlockBytes
MaxBlockBytes == 3
\* the most blocks that are read
MaxBlocks == 18

\* the bytes that hold bits, first bit highest, the last byte filled with zeros
PackBits(bits) ==
    LET B(i) == IF i <= Len(bits) THEN bits[i] ELSE 0
    IN  [k \in 1..((Len(bits) + 7) \div 8) |->
            128 * B(8 * k - 7) + 64 * B(8 * k - 6) + 32 * B(8 * k - 5)
            + 16 * B(8 * k - 4) + 8 * B(8 * k - 3) + 4 * B(8 * k - 2)
            + 2 * B(8 * k - 1) + B(8 * k)]

RepeatBits(block, n) ==
    [i \in 1..(n * Len(block)) |-> block[((i - 1) % Len(block)) + 1]]

\* the values of the DC codes 00, 01, 10, 11
DcSymbols == {<<0, 1, 11, 12>>, <<0, 2, 11, 16>>, <<0, 3, 11, 17>>}
BlockBytes == {0, 64, 128, 192}

\* the values of the AC codes 100, 101, 110, 111 (the code 0 has the value 0):
\* 0xF0, then 0x10 or 0xE0, then 0x01 or 0x02, then 0xE1 or 0xF1
AcSymbols == {<<240, 16, 1, 225>>, <<240, 224, 2, 241>>}

\* the most AC codes that follow the runs of 0xF0 in a stream of AcStreams
MaxAcCodes == 2

RECURSIVE Flatten(_)
Flatten(q) == IF q = <<>> THEN <<>> ELSE Head(q) \o Flatten(Tail(q))

\* a block with the DC code 00, up to three codes 100 and then up to
\* MaxAcCodes AC codes, the last two kinds followed by a bit 1
AcStreams ==
    {PackBits(<<0, 0>> \o RepeatBits(<<1, 0, 0>>, zrl) \o Flatten(codes)) :
        zrl \in 0..3,
        codes \in SeqsUpTo({<<0>>, <<1, 0, 0>>, <<1, 0, 1>>, <<1, 1, 0, 1>>,
                            <<1, 1, 1, 1>>}, MaxAcCodes)}

\* short streams, MaxBlocks blocks that each hold the code 10 (11 bits
\* follow), the differential -2047 and the end of the block, and AcStreams
BlockStreams ==
    (SeqsUpTo(BlockBytes, MaxBlockBytes) \ {<<>>})
    \cup {PackBits(RepeatBits(<<1, 0, 0, 0, 0, 0, 0, 0, 0, 0, 0, 0, 0, 0>>, MaxBlocks))}
    \cup AcStreams

BlockTrees(v, syms, acs) ==
    LET dc == Build(Histogram(<<0, 4>>), syms).tree
        ac == Build(Histogram(<<1, 0, 4>>), <<0>> \o acs).tree
    IN  (TreeKey(v, 0, TRUE) :> [nodes |-> dc.nodes, state_ |-> dc.state_, class |-> 0])
        @@ (TreeKey(v, 0, FALSE) :> [nodes |-> ac.nodes, state_ |-> ac.state_,
                                     class |-> 1])

InitBlock ==
    /\ pc = "ReadBlock"
    /\ err = ""
    /\ in_ \in BlockStreams
    /\ pos = 0
    /\ buffer_ = 0
    /\ buffer_size_ = 0
    /\ variant \in {"baseline", "faster"}
    /\ \E syms \in DcSymbols, acs \in AcSymbols :
          huffman_trees = BlockTrees(variant, syms, acs)
    /\ \E channels_cnt \in {1, 2} :
          last = [op |-> "none", n |-> 0, c |-> 1, at |-> 0, sym |-> -1,
                  diff |-> 0, before |-> [c \in 1..channels_cnt |-> 0],
                  prev_dc |-> [c \in 1..channels_cnt |-> 0],
                  sum |-> [c \in 1..channels_cnt |-> 0], coef0 |-> 0,
                  steps |-> <<>>, matrix |-> <<>>, size |-> 0]
    /\ eof = FALSE
    /\ seen = <<>>
    /\ comment = <<>>
    /\ metadata = NullOpt
    /\ quantum_tables = <<>>
    /\ image_data = NullOpt
    /\ scan = NullOpt
    /\ get_ans = NullOpt

\* ReadBlock(dc_trees[c], ac_trees[c], prev_dc[c]) for the next scan channel c.
\* sym and diff are the DC symbol (-1: none) and the DC differential that the
\* call read, sum[c] the sum of the differentials of channel c as an unbounded
\* integer, steps the passes of the AC loop, matrix the coefficients when the
\* loop ended and size the size of the block that was returned.
DoReadBlock ==
    /\ pc = "ReadBlock"
    /\ LET rd == [in |-> in_, pos |-> pos, buffer_ |-> buffer_,
                  buffer_size_ |-> buffer_size_]
           dc_key == TreeKey(variant, 0, TRUE)
           ac_key == TreeKey(variant, 0, FALSE)
           c == last.c
           r == ReadBlock(variant, huffman_trees, dc_key, ac_key, rd, last.prev_dc[c])
           d == ReadFromHuffmanTree(huffman_trees, dc_key, rd)
           s == IF d.err # "" THEN [val |-> 0, err |-> d.err]
                ELSE ReadBitsSigned(d.rd, d.val)
           diff == IF s.err = "" THEN s.val ELSE 0
           a == IF s.err # "" THEN [steps |-> <<>>, matrix |-> <<>>]
                ELSE ReadBlockAC(d.trees, ac_key, s.rd,
                                 <<ToInt16(last.prev_dc[c] + s.val)>>)
       IN  /\ err' = r.err
           /\ pc' = IF r.err # "" THEN "thrown"
                    ELSE IF last.n + 1 = MaxBlocks THEN "Returned"
                    ELSE "ReadBlock"
           /\ in_' = r.rd.in
           /\ pos' = r.rd.pos
           /\ buffer_' = r.rd.buffer_
           /\ buffer_size_' = r.rd.buffer_size_
           /\ huffman_trees' = r.trees
           /\ last' = [op |-> "ReadBlock", n |-> last.n + 1,
                       c |-> (c % Len(last.prev_dc)) + 1, at |-> c,
                       sym |-> IF d.err = "" THEN d.val ELSE -1,
                       diff |-> diff, before |-> last.prev_dc,
                       prev_dc |-> [last.prev_dc EXCEPT ![c] = r.prev_dc],
                       sum |-> [last.sum EXCEPT ![c] = @ + diff],
                       coef0 |-> IF r.err = "" THEN r.block[1] ELSE 0,
                       steps |-> a.steps, matrix |-> a.matrix,
                       size |-> Len(r.block)]
    /\ UNCHANGED <<variant, eof, seen, comment, metadata, quantum_tables, image_data,
                   scan, get_ans>>

NextBlock == DoReadBlock

SpecBlock == InitBlock /\ [][NextBlock]_vars

(***************************************************************************)
(* The scans of a stream whose SOI, SOF0, DQT and DHT segments have been   *)
(* read: ReadRawImage reads up to MaxScans SOS segments and the EOI, and   *)
(* Decode goes on to GetAns.  The entropy-coded bytes of every scan hold,  *)
(* for each block, a DC differential of +1 and the end-of-block symbol.    *)
(***************************************************************************)
MaxScans == 2

\* the channel ids of the SOS header: those of PixelScans, and all channels
\* of the frame in reverse order
ScanOrders(channels) ==
    PixelScans(channels) \cup
        {[c \in 1..Len(channels) |-> channels[Len(channels) + 1 - c].channel_id]}

\* the entropy-coded bytes of n blocks: 0110 for each block (the DC symbol 1,
\* the bit 1, the AC symbol 0), and 0 bits up to the end of the last byte
BlocksStream(n) == [i \in 1..((n + 1) \div 2) |-> IF 2 * i <= n THEN 102 ELSE 96]

InitScans ==
    /\ pc = "BetweenSegments"
    /\ err = ""
    /\ in_ = <<>>
    /\ pos = 0
    /\ buffer_ = 0
    /\ buffer_size_ = 0
    /\ last = NoCall
    /\ variant \in {"baseline", "faster"}
    /\ eof = FALSE
    /\ seen = [NoMarkers EXCEPT !.n = 4, !.first = "BeginFile", !.soi = 1,
                                !.sof = 1, !.dqt = (0 :> 1),
                                !.dht = (<<0, 0>> :> 1) @@ (<<1, 0>> :> 1)]
    /\ comment = <<>>
    /\ \E channels \in PixelFrames, dim \in PixelDims :
          metadata = ReadImageMeta(8, dim[1], dim[2], Len(channels),
                                   [c \in 1..Len(channels) |->
                                       <<channels[c].channel_id,
                                         16 * channels[c].h + channels[c].v, 0>>])
    /\ quantum_tables = (0 :> [i \in 1..kBlockSz |-> 1])
    /\ huffman_trees = BlockTrees(variant, <<0, 1, 11, 12>>, <<240, 16, 1, 225>>)
    /\ image_data = NullOpt
    /\ scan = NullOpt
    /\ get_ans = NullOpt

\* SOS: ReadImageData(huffman_trees, meta) for a scan of the channels
\* channel_ids with the tables 0/0, and bit_reader_.Align()
OnDataBlocks ==
    /\ pc = "BetweenSegments"
    /\ seen.sos < MaxScans
    /\ \E channel_ids \in ScanOrders(metadata.channels) :
          LET s == ScanChannels(variant, huffman_trees,
                                [c \in 1..Len(channel_ids) |-> <<channel_ids[c], 0>>],
                                1, <<>>)
              n == McuCount(metadata.height,
                            MaxOver(metadata.channels, Len(metadata.channels), "v"))
                   * McuCount(metadata.width,
                              MaxOver(metadata.channels, Len(metadata.channels), "h"))
                   * Len(McuSchedule(metadata, s.chans, 1))
          IN  ScanData(s.chans, <<0, 63, 0>>, BlocksStream(n), "none")

NextScans ==
    \/ OnDataBlocks
    \/ OnEndFile
    \/ DoQuantization
    \/ DoIDCT
    \/ DoRationing
    \/ DoGetAns

SpecScans == InitScans /\ [][NextScans]_vars

\* the coefficients from..to of matrix, as far as there are any, are zeros
ZerosAt(matrix, from, to) ==
    \A k \in from..to : k <= Len(matrix) => matrix[k] = 0

(***************************************************************************)
(* C23.  The AC symbol 0x00 fills the rest of the block with zeros and     *)
(* ends the block; 0xF0 appends exactly 16 zeros and reads no further bit; *)
(* any other symbol with low nibble 0 throws 'Empty ac coef'.              *)
(***************************************************************************)
C23_AcSymbolsOfSizeZero ==
    (last.op = "ReadBlock") =>
        \A i \in 1..Len(last.steps) :
            LET e == last.steps[i]
            IN  /\ (e.mask = 0) =>
                      /\ i = Len(last.steps)
                      /\ err = ""
                      /\ Len(last.matrix) = kBlockSz
                      /\ last.size = kBlockSz
                      /\ ZerosAt(last.matrix, e.at + 1, kBlockSz)
                /\ (e.mask = 240) =>
                      /\ e.len = e.at + 16
                      /\ Len(last.matrix) >= e.len
                      /\ ZerosAt(last.matrix, e.at + 1, e.len)
                      /\ e.to = e.from
                /\ (LoNibble(e.mask) = 0 /\ e.mask \notin {0, 240}) =>
                      /\ i = Len(last.steps)
                      /\ pc = "thrown"
                      /\ err = "Empty ac coef"

\* a block of 0xF0, a coefficient and 0x00 has been returned
C23_Witness ==
    /\ last.op = "ReadBlock"
    /\ err = ""
    /\ Len(last.steps) = 3
    /\ last.steps[1].mask = 240
    /\ last.steps[2].mask = 1
    /\ last.steps[3].mask = 0
    /\ last.steps[3].at = 18
    /\ last.matrix[18] # 0

(***************************************************************************)
(* C24.  ReadBlock returns exactly 64 coefficients or throws; it throws    *)
(* when a run of zeros and its coefficient pass index 63, and never        *)
(* returns a block made of more than 63 AC coefficients.                   *)
(***************************************************************************)
C24_BlockOf64OrThrow ==
    (last.op = "ReadBlock") =>
        /\ (pc # "thrown") => (last.size = kBlockSz /\ Len(last.matrix) = kBlockSz)
        /\ (pc # "thrown") => \A i \in 1..Len(last.steps) : last.steps[i].len <= kBlockSz
        /\ \A i \in 1..Len(last.steps) :
              last.steps[i].len > kBlockSz =>
                  /\ pc = "thrown"
                  /\ err = "Too many blocks in matrix"
                  /\ i = Len(last.steps)

\* a fourth 0xF0 with 15 positions left has thrown
C24_Witness ==
    /\ last.op = "ReadBlock"
    /\ pc = "thrown"
    /\ err = "Too many blocks in matrix"
    /\ Len(last.steps) = 4
    /\ last.steps[4].mask = 240
    /\ last.steps[4].at = 49

(***************************************************************************)
(* C17.  A DC symbol above 11 is fatal: ReadBlock throws, and no           *)
(* differential of more than 11 bits is added to prev_dc.                  *)
(***************************************************************************)
C17_DcSymbolAbove11Fatal ==
    (last.op = "ReadBlock" /\ last.sym \in 12..255) =>
        /\ pc = "thrown"
        /\ last.prev_dc = last.before

\* what a block leaves alone: a DC symbol 0 carries the previous DC forward,
\* and the predictors of the other channels stay
C20_CarriesForward ==
    /\ (last.sym = 0) => last.coef0 = last.before[last.at]
    /\ last.prev_dc[last.at] = last.coef0
    /\ \A o \in DOMAIN last.prev_dc :
          o # last.at => last.prev_dc[o] = last.before[o]

(***************************************************************************)
(* C20 as stated.  Coefficient 0 of a decoded block of scan channel c is   *)
(* the sum of the DC differentials of the blocks of that channel so far,   *)
(* from 0 at the start of the scan; a DC symbol 0 carries the previous DC  *)
(* forward; blocks of other channels do not change the predictor of c.     *)
(***************************************************************************)
C20_DcIsSumOfDifferentials ==
    (last.op = "ReadBlock" /\ err = "") =>
        /\ last.coef0 = last.sum[last.at]
        /\ C20_CarriesForward

(***************************************************************************)
(* C20 amended.  Coefficient 0 of a decoded block of scan channel c is the *)
(* sum of the DC differentials of the blocks of that channel so far taken  *)
(* as an int16_t, that is modulo 2^16 in -32768..32767; a DC symbol 0      *)
(* carries the previous DC forward; blocks of other channels do not change *)
(* the predictor of c.                                                     *)
(***************************************************************************)
C20_DcIsSumAsInt16 ==
    (last.op = "ReadBlock" /\ err = "") =>
        /\ last.coef0 = ToInt16(last.sum[last.at])
        /\ C20_CarriesForward

\* the sum of the differentials of a channel has left the range of int16_t
C20_Witness ==
    /\ last.op = "ReadBlock"
    /\ err = ""
    /\ last.sym = 11
    /\ last.n >= 17
    /\ last.sum[last.at] < -32768
    /\ last.coef0 > 0

(***************************************************************************)
(* SpecZigZag: GetZigZag of both variants on one block of kBlockSz values. *)
(***************************************************************************)
\* the blocks k, k + 1, ... (mod 64), whose elements all differ, and the
\* blocks with a single 1
ZigZagBlocks ==
    {[i \in 1..kBlockSz |-> (i + k) % kBlockSz] : k \in 0..(kBlockSz - 1)}
    \cup {[i \in 1..kBlockSz |-> IF i = k THEN 1 ELSE 0] : k \in 1..kBlockSz}

InitZigZag ==
    /\ pc = "GetZigZag"
    /\ err = ""
    /\ in_ = <<>>
    /\ pos = 0
    /\ buffer_ = 0
    /\ buffer_size_ = 0
    /\ last \in {[op |-> "none", data |-> d, baseline |-> <<>>, faster |-> <<>>] :
                     d \in ZigZagBlocks}
    /\ ParserIdle

\* GetZigZag(data) of either variant
DoGetZigZag ==
    /\ pc = "GetZigZag"
    /\ \E v \in {"baseline", "faster"} :
          /\ IF v = "baseline" THEN last.baseline = <<>> ELSE last.faster = <<>>
          /\ last' = IF v = "baseline"
                     THEN [last EXCEPT !.op = "GetZigZag",
                                       !.baseline = GetZigZag(v, last.data)]
                     ELSE [last EXCEPT !.op = "GetZigZag",
                                       !.faster = GetZigZag(v, last.data)]
          /\ pc' = IF last'.baseline # <<>> /\ last'.faster # <<>>
                   THEN "Returned" ELSE "GetZigZag"
    /\ UNCHANGED <<err, in_, pos, buffer_, buffer_size_, parserVars>>

NextZigZag == DoGetZigZag

SpecZigZag == InitZigZag /\ [][NextZigZag]_vars

\* the step (0, 1, ...) of the zig-zag path of an 8x8 block at which it is at
\* (row, col): the diagonals in turn, the even ones upwards, the odd ones
\* downwards
ZigZagStep(row, col) ==
    LET d == row + col
        before == IF d < 8 THEN (d * (d + 1)) \div 2
                  ELSE 64 - ((15 - d) * (16 - d)) \div 2
        first == IF d < 8 THEN 0 ELSE d - 7
    IN  before + (IF d % 2 = 0 THEN col - first ELSE row - first)

(***************************************************************************)
(* C28.  The two GetZigZag give the same vector, and input element k is at *)
(* the raster position of step k of the zig-zag path, so the vector is a   *)
(* permutation of the input.                                               *)
(***************************************************************************)
C28_ZigZagAgree ==
    (pc = "Returned" /\ last.op = "GetZigZag") =>
        /\ last.baseline = last.faster
        /\ \A row \in 0..7 : \A col \in 0..7 :
              last.baseline[row * 8 + col + 1] = last.data[ZigZagStep(row, col) + 1]
        /\ \A k \in 1..kBlockSz :
              Cardinality({p \in 1..kBlockSz : last.faster[p] = last.data[k]})
              = Cardinality({i \in 1..kBlockSz : last.data[i] = last.data[k]})

\* both have run on a block whose elements all differ
C28_Witness ==
    /\ pc = "Returned"
    /\ last.op = "GetZigZag"
    /\ last.data[1] = 5
    /\ last.baseline[1] = 5
    /\ last.faster[9] = 7
    /\ last.baseline[64] = 4

(***************************************************************************)
(* The bits that the BitReader has still to give: what is left in buffer_, *)
(* then the bits of the unread bytes, first bit highest, without the 0x00  *)
(* that follows a 0xFF.                                                    *)
(***************************************************************************)
ByteBits(b) == [k \in 1..8 |-> (b \div Pow2(8 - k)) % 2]

RECURSIVE UnstuffedBits(_, _)
UnstuffedBits(bytes, p) ==
    IF p > Len(bytes) THEN <<>>
    ELSE ByteBits(bytes[p])
         \o UnstuffedBits(bytes, IF bytes[p] = 255 /\ p < Len(bytes) /\ bytes[p + 1] = 0
                                 THEN p + 2 ELSE p + 1)

PendingBits == SubSeq(ByteBits(buffer_), 1, buffer_size_) \o UnstuffedBits(in_, pos + 1)

\* the number that bits spell, first bit highest
RECURSIVE BitsValue(_)
BitsValue(bits) ==
    IF bits = <<>> THEN 0
    ELSE 2 * BitsValue(SubSeq(bits, 1, Len(bits) - 1)) + bits[Len(bits)]

(***************************************************************************)
(* C25.  A ReadBits call of 1..16 bits returns the next bits of the        *)
(* payload, first bit highest, with the 0x00 after each 0xFF removed, and  *)
(* leaves the bits after them to the next call; so the values of any split *)
(* into calls spell the same bits.                                         *)
(***************************************************************************)
C25_ReadBitsStep ==
    (last'.op = "ReadBits" /\ last'.n \in 1..16 /\ err' = "") =>
        /\ last'.n <= Len(PendingBits)
        /\ last'.val = BitsValue(SubSeq(PendingBits, 1, last'.n))
        /\ PendingBits' = SubSeq(PendingBits, last'.n + 1, Len(PendingBits))

C25_BitsOfPayload == [][C25_ReadBitsStep]_vars

\* one call has taken the 16 bits of FF 00 A5
C25_Witness ==
    /\ in_ = <<255, 0, 165>>
    /\ last.op = "ReadBits"
    /\ last.n = 16
    /\ last.val = 65445
    /\ err = ""
    /\ pos = 3

(***************************************************************************)
(* C26.  With 1..7 bits in the buffer ReadByte and ReadWord throw 'Bits    *)
(* not aligned' and take nothing from the stream; Align discards the bits  *)
(* of the buffer, and the ReadByte after it returns the next unread byte   *)
(* as it is.                                                               *)
(***************************************************************************)
C26_ByteReadStep ==
    /\ (buffer_size_ \in 1..7 /\ last'.op \in {"ReadByte", "ReadWord"}) =>
          /\ pc' = "thrown"
          /\ err' = "Bits not aligned"
          /\ pos' = pos
    /\ (last'.op = "Align") =>
          /\ buffer_size_' = 0
          /\ buffer_' = 0
          /\ pos' = pos
    /\ (last.op = "Align" /\ last'.op = "ReadByte" /\ pos < Len(in_)) =>
          /\ err' = ""
          /\ last'.val = in_[pos + 1]
          /\ pos' = pos + 1

C26_AlignedByteReads == [][C26_ByteReadStep]_vars

\* ReadWord has thrown with bits of the byte A5 left in the buffer
C26_Witness ==
    /\ last.op = "ReadWord"
    /\ pc = "thrown"
    /\ err = "Bits not aligned"
    /\ buffer_size_ \in 1..7
    /\ in_[1] = 165
    /\ pos = 1

(***************************************************************************)
(* C27.  ReadBitsSigned(n), n in 1..16, returns the value v whose n-bit    *)
(* code it read: the code itself when its first bit is 1, the code minus   *)
(* 2^n - 1 otherwise.  ReadBitsSigned(0) returns 0 and reads no bit.       *)
(***************************************************************************)
C27_ReadBitsSignedStep ==
    (last'.op = "ReadBitsSigned" /\ last'.n \in 0..16 /\ err' = "") =>
        IF last'.n = 0
        THEN last'.val = 0 /\ PendingBits' = PendingBits
        ELSE LET code == BitsValue(SubSeq(PendingBits, 1, last'.n))
             IN  last'.val = IF code >= Pow2(last'.n - 1) THEN code
                             ELSE code - (Pow2(last'.n) - 1)

C27_ReadBitsSignedDecodes == [][C27_ReadBitsSignedStep]_vars

\* q = ceil(a / b)
IsCeil(q, a, b) == b > 0 /\ (q - 1) * b < a /\ a <= q * b

(***************************************************************************)
(* C21.  After ReadImageData has succeeded, channel_matrix[c] holds        *)
(* mcu_w * mcu_h * h_c * v_c blocks of 64 coefficients for every scan      *)
(* channel c, mcu_w = ceil(width / 8H), mcu_h = ceil(height / 8V), and the *)
(* bit buffer is empty when the next marker is read.                       *)
(***************************************************************************)
C21_GridOfBlocks ==
    (image_data # NullOpt /\ metadata # NullOpt) =>
        LET H == MaxOver(metadata.channels, Len(metadata.channels), "h")
            V == MaxOver(metadata.channels, Len(metadata.channels), "v")
        IN  /\ \A c \in 1..Len(image_data.channel_ids) :
                   LET i == GetMetaByChannelId(metadata, image_data.channel_ids[c])
                   IN  /\ i # 0
                       /\ Len(image_data.channel_matrix[c])
                            = image_data.mcu_w * image_data.mcu_h
                              * metadata.channels[i].h * metadata.channels[i].v
                       /\ \A k \in 1..Len(image_data.channel_matrix[c]) :
                              Len(image_data.channel_matrix[c][k]) = kBlockSz
            /\ IsCeil(image_data.mcu_w, metadata.width, 8 * H)
            /\ IsCeil(image_data.mcu_h, metadata.height, 8 * V)
            /\ buffer_size_ = 0
            /\ buffer_ = 0

(***************************************************************************)
(* C29.  The maxima H and V that GetAns uses to size and place the MCUs    *)
(* are those from which ReadImageData computed mcu_w and mcu_h, also for a *)
(* scan that lists fewer channels than the frame header, or in another     *)
(* order.                                                                  *)
(***************************************************************************)
C29_SameMaxima ==
    (pc = "Returned" /\ get_ans # NullOpt) =>
        /\ get_ans.h_max = MaxOver(metadata.channels, Len(metadata.channels), "h")
        /\ get_ans.v_max = MaxOver(metadata.channels, Len(metadata.channels), "v")
        /\ image_data.mcu_w = McuCount(metadata.width, get_ans.h_max)
        /\ image_data.mcu_h = McuCount(metadata.height, get_ans.v_max)

\* a comes before b in the lexicographic order of tuples of the same length
LexLess(a, b) ==
    \E i \in 1..Len(a) : a[i] < b[i] /\ \A j \in 1..(i - 1) : a[j] = b[j]

\* the <<mcu_y, mcu_x, c, block_v, block_h>> of the blocks of the MCU grid of
\* data for the frame meta
GridBlocks(meta, data) ==
    {t \in (0..(data.mcu_h - 1)) \X (0..(data.mcu_w - 1)) \X (1..Len(data.channel_ids))
            \X (0..3) \X (0..3) :
        LET i == GetMetaByChannelId(meta, data.channel_ids[t[3]])
        IN  i # 0 /\ t[4] < meta.channels[i].v /\ t[5] < meta.channels[i].h}

\* C22: ReadImageData decodes the blocks of the whole MCU grid with
\* (mcu_y, mcu_x, c, block_v, block_h) in increasing lexicographic order:
\* MCU rows, MCU columns, scan channels in SOS order, block_v outer and
\* block_h inner; the k-th block decoded for channel c is the k-th block
\* stored for it; and GetAns takes the blocks at the same
\* (mcu_y, mcu_x, c, block_v, block_h) in the same order.
C22_SameBlockOrder ==
    /\ (pc = "BetweenSegments" /\ image_data # NullOpt) =>
          /\ \A j \in 1..(Len(scan.order) - 1) :
                 LexLess(scan.order[j], scan.order[j + 1])
          /\ {scan.order[j] : j \in 1..Len(scan.order)} = GridBlocks(metadata, image_data)
          /\ \A c \in 1..Len(image_data.channel_ids) :
                 /\ Len(image_data.channel_matrix[c]) =
                        Cardinality({j \in 1..Len(scan.order) : scan.order[j][3] = c})
                 /\ \A k \in 1..Len(image_data.channel_matrix[c]) :
                        image_data.channel_matrix[c][k][1] = k
    /\ (pc = "Returned" /\ get_ans # NullOpt) => get_ans.order = scan.order

\* a scan of three channels over two MCUs of 2 x 2, 1 and 1 blocks has been
\* decoded and drawn
C22_Witness ==
    /\ pc = "Returned"
    /\ get_ans # NullOpt
    /\ Len(image_data.channel_ids) = 3
    /\ Len(scan.order) = 12
    /\ scan.order[10] = <<0, 1, 1, 1, 1>>
    /\ get_ans.order[12] = <<0, 1, 3, 0, 0>>

\* what ReadImageData gives for the SOS of the channels ids when it is the
\* only SOS of the stream: the trees as DHT built them, n blocks of bytes
AloneScan(ids, n) ==
    LET trees == BlockTrees(variant, <<0, 1, 11, 12>>, <<240, 16, 1, 225>>)
        s == ScanChannels(variant, trees, [c \in 1..Len(ids) |-> <<ids[c], 0>>],
                          1, <<>>)
    IN  ReadScanData(variant, trees, metadata, s.chans, BlocksStream(n), "none")

\* C30: ReadRawImage accepts every further SOS segment; after each SOS, and
\* when ReadRawImage returns, image_data holds the channel list of the last
\* SOS and, for each of its channels, the blocks of one full MCU grid that a
\* decode of this SOS alone gives, with the DC predictors from 0 (the k-th
\* block of a channel holds DC = k for differentials of +1); the Huffman
\* trees are at their roots for the next SOS.
C30_LastScanOnly ==
    /\ (seen.sos >= 1 /\ seen.eoi = 0) => (pc = "BetweenSegments" /\ err = "")
    /\ (seen.sos >= 1 /\ pc \in {"BetweenSegments", "Quantization"}) =>
          /\ image_data # NullOpt
          /\ image_data.channel_ids = scan.ids
          /\ image_data.channel_matrix =
                 AloneScan(scan.ids, Len(scan.order)).channel_matrix
          /\ \A c \in 1..Len(image_data.channel_ids) :
                 LET m == metadata.channels[GetMetaByChannelId(metadata,
                                               image_data.channel_ids[c])]
                 IN  /\ Len(image_data.channel_matrix[c]) =
                            image_data.mcu_h * image_data.mcu_w * m.h * m.v
                     /\ \A k \in 1..Len(image_data.channel_matrix[c]) :
                            /\ Len(image_data.channel_matrix[c][k]) = kBlockSz
                            /\ image_data.channel_matrix[c][k][1] = k
          /\ \A key \in DOMAIN huffman_trees : huffman_trees[key].state_ = <<>>

\* ReadRawImage returns after two SOS segments, the second for one channel
\* of several blocks
C30_Witness ==
    /\ pc = "Quantization"
    /\ seen.sos = 2
    /\ Len(metadata.channels) = 3
    /\ image_data.channel_ids = <<1>>
    /\ Len(image_data.channel_matrix[1]) = 8

\* |a - b|
AbsDiff(a, b) == IF a >= b THEN a - b ELSE b - a

(***************************************************************************)
(* C14.  Every component of the RGB that YCbCrToRGB of the faster variant  *)
(* returns differs by at most 1 from the component that the baseline       *)
(* variant (the floating-point reference) returns for the same samples.    *)
(***************************************************************************)
C14_FixedPointWithinOne ==
    (pc = "Returned" /\ last.op = "YCbCrToRGB" /\ variant = "faster") =>
        \A i \in 1..3 : AbsDiff(last.rgb[i], last.ref[i]) <= 1

(***************************************************************************)
(* C11.  Tables are write-once: when a quantization-table id or a Huffman  *)
(* <<class, id>> has been read a second time, in one segment or in two,    *)
(* ReadRawImage has thrown; and no step replaces a table that              *)
(* quantum_tables or huffman_trees holds.                                  *)
(***************************************************************************)
C11_NoSecondDefinition ==
    /\ \A id \in DOMAIN seen.dqt : seen.dqt[id] >= 2 => pc = "thrown"
    /\ \A k \in DOMAIN seen.dht : seen.dht[k] >= 2 => pc = "thrown"

C11_NeverReplaced ==
    /\ \A id \in DOMAIN quantum_tables \cap DOMAIN quantum_tables' :
           quantum_tables'[id] = quantum_tables[id]
    /\ \A key \in DOMAIN huffman_trees \cap DOMAIN huffman_trees' :
           /\ huffman_trees'[key].nodes = huffman_trees[key].nodes
           /\ huffman_trees'[key].class = huffman_trees[key].class

C11_TablesWriteOnce == []C11_NoSecondDefinition /\ [][C11_NeverReplaced]_vars

\* a second table with id 0 arrived in a later DQT segment than the first
C11_Witness ==
    /\ Thrown("Two or more quantum tables with one id")
    /\ seen.dqt = (0 :> 2)
    /\ seen.n >= 3

(***************************************************************************)
(* C12.  When ReadImageData has accepted a scan header, every scan channel *)
(* names a DC table id for which a DHT table of class 0 and an AC table id *)
(* for which a DHT table of class 1 had been read before the SOS marker.   *)
(***************************************************************************)
C12_CodebooksDefinedBeforeScan ==
    scan # NullOpt =>
        \A c \in 1..Len(scan.refs) :
            /\ <<0, scan.refs[c][1]>> \in scan.defined
            /\ <<1, scan.refs[c][2]>> \in scan.defined

(***************************************************************************)
(* C13.  The comment of the image that Decode returns is the payload of    *)
(* the last COM segment read, empty when there was none.  An APPn segment  *)
(* with length word len reads len bytes after the marker (the length word  *)
(* and len - 2 payload bytes) and leaves the comment, the tables, the      *)
(* frame header and the scan data as they were.                            *)
(***************************************************************************)
C13_CommentIsLastCOM ==
    /\ pc \in {"BetweenSegments", "Quantization", "IDCT", "Rationing", "GetAns",
               "Returned"} => comment = seen.lastCom
    /\ (seen.com # NullOpt /\ seen.com.marker = "APPn") => seen.com.read = seen.com.len

C13_APPnLeavesAll ==
    (seen'.n = seen.n + 1 /\ seen'.com # NullOpt /\ seen'.com.marker = "APPn") =>
        UNCHANGED <<comment, metadata, quantum_tables, huffman_trees, image_data>>

C13_CommentAndAPPn == []C13_CommentIsLastCOM /\ [][C13_APPnLeavesAll]_vars

\* an image is returned whose comment was set by a COM segment that was
\* followed by another segment
C13_Witness ==
    /\ pc = "Returned"
    /\ comment = <<65>>
    /\ seen.lastCom = <<65>>
    /\ seen.n >= 6

====
